---- MODULE Spec2Model ----
(***************************************************************************)
(* Booking concurrency and capacity control of the Gym Management System.  *)
(*                                                                         *)
(* The services (classBookingService: registerForClass, cancelBooking;     *)
(* trainerBookingService: getTrainerAvailability, requestTrainerBooking,   *)
(* confirmTrainerBooking, rejectTrainerBooking) run as concurrent          *)
(* transactions against one MySQL/InnoDB store.  The store is modelled by  *)
(* what the statements of the services ask of it:                          *)
(*   - SELECT ... FOR UPDATE waits until no other transaction holds a row  *)
(*     it selects, then holds those rows until commit or rollback, and     *)
(*     reads the latest committed version of them;                         *)
(*   - a plain SELECT inside a transaction reads the rows committed when   *)
(*     the first plain SELECT of that transaction ran, plus the            *)
(*     transaction's own writes; outside a transaction it reads what is    *)
(*     committed as it runs;                                               *)
(*   - a statement sent to the pool (db.execute) runs on any connection    *)
(*     that is free, one a call released with its transaction open         *)
(*     included;                                                           *)
(*   - INSERT allocates the next auto-increment id at once, the row stays  *)
(*     invisible to other transactions until COMMIT.                       *)
(* Dates are day numbers (0 is SQL NULL), times of day are units of a      *)
(* quarter of an hour counted from the opening of the day.                 *)
(***************************************************************************)
EXTENDS Integers, Sequences, FiniteSets, TLC

\* ------------------------------------------------------------------ bounds
\* Calls made in a run; each runs in its own transaction and may overlap any other.
NumTx == 3
\* Member ids 1..NumMembers.
NumMembers == 2
\* The clock runs over the days 1..MaxDay.
MaxDay == 2
\* Times of day run over 0..MaxTime where a claim ranges over all intervals.
MaxTime == 4

Slots == 1..NumTx
\* The calls of a run of the trainer workflow, and of the two workflows together.
ThreeCalls == {1, 2, 3}
Members == 1..NumMembers
Days == 1..MaxDay
NULL == 0
\* Times of day count quarter-hours from 09:00; 00:00 is 36 of them before.
Midnight == 0 - 36
NoNote == "NULL"

VARIABLES
  today,            \* the calendar day new Date() / NOW() yields
  clock,            \* the time of that day new Date() yields
  classBookings,    \* table class_bookings, booking_id = index
  trainerBookings,  \* table trainer_bookings, booking_id = index
  tx                \* per call: its arguments, its progress, its result

vars == <<today, clock, classBookings, trainerBookings, tx>>

\* ------------------------------------------------- tables read by the core
\* Table classes: class_id -> is_active; class 2 has been retired.
Classes == [c \in {1, 2} |-> [is_active |-> (c = 1)]]

\* Table class_schedules: schedule_id -> row.
ClassSchedules ==
  (1 :> [class_id |-> 1, capacity |-> 1, valid_from |-> NULL, valid_until |-> NULL,
         day_of_week |-> "MON", start_time |-> 2]) @@
  (2 :> [class_id |-> 1, capacity |-> 2, valid_from |-> NULL, valid_until |-> NULL,
         day_of_week |-> "MON", start_time |-> 0]) @@
  (3 :> [class_id |-> 1, capacity |-> 1, valid_from |-> NULL, valid_until |-> 1,
         day_of_week |-> "MON", start_time |-> 1]) @@
  (4 :> [class_id |-> 1, capacity |-> 2, valid_from |-> 2, valid_until |-> NULL,
         day_of_week |-> "TUE", start_time |-> 0]) @@
  (5 :> [class_id |-> 2, capacity |-> 1, valid_from |-> NULL, valid_until |-> 1,
         day_of_week |-> "MON", start_time |-> 3]) @@
  (6 :> [class_id |-> 1, capacity |-> 1, valid_from |-> 3, valid_until |-> 1,
         day_of_week |-> "WED", start_time |-> 0])

ScheduleIds == DOMAIN ClassSchedules
\* The schedules without a validity window, and those with one (schedule 6
\* was entered with its two dates the wrong way round).
OpenSchedules ==
  {sid \in ScheduleIds : ClassSchedules[sid].valid_from = NULL
                          /\ ClassSchedules[sid].valid_until = NULL}
WindowSchedules == ScheduleIds \ OpenSchedules

\* Table trainer_availabilities: availability_id -> row.
TrainerAvailabilities ==
  (1 :> [trainer_id |-> 1, status |-> "Active", is_recurring |-> 0, specific_date |-> 1,
         day_of_week |-> "NULL", start_time |-> 2, end_time |-> 4, max_concurrent_bookings |-> 2]) @@
  (2 :> [trainer_id |-> 2, status |-> "Active", is_recurring |-> 0, specific_date |-> 1,
         day_of_week |-> "NULL", start_time |-> 0, end_time |-> 4, max_concurrent_bookings |-> 1]) @@
  (3 :> [trainer_id |-> 1, status |-> "Active", is_recurring |-> 1, specific_date |-> NULL,
         day_of_week |-> "MON", start_time |-> 0, end_time |-> 4, max_concurrent_bookings |-> 1]) @@
  (4 :> [trainer_id |-> 3, status |-> "Active", is_recurring |-> 0, specific_date |-> 1,
         day_of_week |-> "NULL", start_time |-> 0, end_time |-> 2, max_concurrent_bookings |-> 1]) @@
  (5 :> [trainer_id |-> 3, status |-> "Active", is_recurring |-> 0, specific_date |-> 1,
         day_of_week |-> "NULL", start_time |-> 2, end_time |-> 4, max_concurrent_bookings |-> 1]) @@
  (6 :> [trainer_id |-> 3, status |-> "Inactive", is_recurring |-> 1, specific_date |-> NULL,
         day_of_week |-> "MON", start_time |-> 0, end_time |-> 6, max_concurrent_bookings |-> 1])

AvailabilityIds == DOMAIN TrainerAvailabilities
Trainers == {1, 2}
\* The <<start, duration>> pairs callers ask for: 09:00-09:30, 09:15-09:45 and
\* 09:30-10:00 on a day that opens at 09:00.
Requests == {<<0, 2>>, <<1, 2>>, <<2, 2>>}

\* A transaction that has run no plain SELECT has no view yet.
NoView == <<>>

Idle == [op |-> "none", pc |-> "idle", member |-> 0, target |-> 0,
         day |-> 0, start |-> 0, dur |-> 0, reason |-> "NULL", slot |-> 0,
         result |-> "none", bookingId |-> 0, slots |-> {},
         avail |-> <<>>, list |-> <<>>, classes |-> <<>>, got |-> {},
         primary |-> "none", leak |-> "none", frac |-> 0, view |-> NoView]

Init ==
  /\ today = 1
  /\ clock = Midnight
  /\ classBookings = <<>>
  /\ trainerBookings = <<>>
  /\ tx = [s \in Slots |-> Idle]

\* -------------------------------------------------------------- the store
Committed(rows) == {i \in DOMAIN rows : rows[i].owner = 0}

\* Rows of a table a statement of caller s sees: committed ones and its own.
Visible(rows, s) == {i \in DOMAIN rows : rows[i].owner \in {0, s}}

CommitRows(rows, s) ==
  [i \in DOMAIN rows |-> IF rows[i].owner = s THEN [rows[i] EXCEPT !.owner = 0] ELSE rows[i]]

\* The owner mark of a row whose insert was rolled back: the id is spent, the
\* row is in no view.
RolledBack == 0 - 1

\* ROLLBACK: the rows the transaction of s inserted are gone.
RollbackRows(rows, s) ==
  [i \in DOMAIN rows |-> IF rows[i].owner = s THEN [rows[i] EXCEPT !.owner = RolledBack]
                         ELSE rows[i]]

\* The committed rows of a table.
Snapshot(rows) == [i \in Committed(rows) |-> rows[i]]

\* The view a transaction reads in from its first plain SELECT on: the rows
\* of the tables committed when that statement ran.
OpenView ==
  [class_bookings |-> Snapshot(classBookings), trainer_bookings |-> Snapshot(trainerBookings)]

\* reason ? `Rejection reason: ${reason}` : null
RejectionNote(reason) == IF reason \in {"NULL", ""} THEN NoNote ELSE <<"Rejection reason: ", reason>>

\* The transaction of o has run its UPDATE and not committed it.
Updated(o) == tx[o].pc = "commit" \/ tx[o].leak = "written"

\* The tables once the transaction of o is committed: the row it inserted is
\* there for all, the row it updated has its new values.
CommitClassBookings(o) ==
  CASE tx[o].op = "register" -> CommitRows(classBookings, o)
    [] tx[o].op = "cancel" /\ Updated(o) ->
         [classBookings EXCEPT ![tx[o].target].status = "Canceled",
                               ![tx[o].target].booking_end_date = tx[o].day]
    [] OTHER -> classBookings

CommitTrainerBookings(o) ==
  CASE tx[o].op = "request" -> CommitRows(trainerBookings, o)
    [] tx[o].op = "confirm" /\ Updated(o) ->
         [trainerBookings EXCEPT ![tx[o].target].status = "Confirmed"]
    [] tx[o].op = "reject" /\ Updated(o) ->
         [trainerBookings EXCEPT ![tx[o].target].status = "Rejected",
                                 ![tx[o].target].note = RejectionNote(tx[o].reason)]
    [] OTHER -> trainerBookings

\* The calls that returned with their transaction open: finally released the
\* connection to the pool as it was.
LeftOpen == {o \in Slots : tx[o].pc = "done" /\ tx[o].leak # "none"}

\* db.getConnection() and beginTransaction(): the pool hands out a connection
\* without an open transaction (0) or one a call left open, and START
\* TRANSACTION on that one commits what it had open.
Connect(s, call) ==
  \E o \in LeftOpen \cup {0} :
    IF o = 0
    THEN /\ tx' = [tx EXCEPT ![s] = call]
         /\ UNCHANGED <<classBookings, trainerBookings>>
    ELSE /\ tx' = [tx EXCEPT ![s] = call, ![o].leak = "none",
                             ![o].view = NoView, ![o].got = {}]
         /\ classBookings' = CommitClassBookings(o)
         /\ trainerBookings' = CommitTrainerBookings(o)

\* Calls are numbered in the order they arrive.
Arrives(s) == tx[s].pc = "idle" /\ (IF s = 1 THEN TRUE ELSE tx[s - 1].pc # "idle")

\* Commit or rollback has run: the row locks are gone, the call returns its
\* record or throws the error of the code.
Finish(s, code) ==
  tx' = [tx EXCEPT ![s].pc = "done", ![s].result = code, ![s].view = NoView, ![s].got = {}]

\* ------------------------------------------------------- registerForClass
\* The locking read: the schedule joined with its class.
ScheduleRows(sid) ==
  IF sid \in ScheduleIds /\ ClassSchedules[sid].class_id \in DOMAIN Classes
  THEN {[schedule_id |-> sid,
         capacity |-> ClassSchedules[sid].capacity,
         valid_from |-> ClassSchedules[sid].valid_from,
         valid_until |-> ClassSchedules[sid].valid_until,
         is_active |-> Classes[ClassSchedules[sid].class_id].is_active]}
  ELSE {}

ScheduleLockKeys_NoLock(sid) == {}

\* FOR UPDATE on the join locks the schedule row and the class row it joins.
ScheduleLockKeys(sid) ==
  IF ScheduleRows(sid) # {}
  THEN {<<"class_schedules", sid>>, <<"classes", ClassSchedules[sid].class_id>>}
  ELSE {}

\* A DATE column comes back as the Date of the local midnight of its day, and
\* the local year, month and day of that Date are the day of the column; NULL
\* stays NULL.  On day numbers the text YYYY-MM-DD is the number of the day.
formatLocalDate(date) == IF date = NULL THEN NULL ELSE date

\* Active bookings of the member on the schedule, end date open or in the future.
\* rows is the table as the statement sees it, now the day NOW() yields.
ExistingBookings(rows, sid, memberId, now, s) ==
  {i \in Visible(rows, s) :
     /\ rows[i].class_schedule_id = sid
     /\ rows[i].member_id = memberId
     /\ rows[i].status = "Active"
     /\ (rows[i].booking_end_date = NULL \/ rows[i].booking_end_date > now)}

ActiveCount_CountsCanceled(rows, sid, s) ==
  Cardinality({i \in Visible(rows, s) : rows[i].class_schedule_id = sid})

ActiveCount_AllSchedules(rows, sid, s) ==
  Cardinality({i \in Visible(rows, s) : rows[i].status = "Active"})

\* COUNT(*) of the Active bookings of the schedule, in the table as the
\* statement sees it.
ActiveCount(rows, sid, s) ==
  Cardinality({i \in Visible(rows, s) :
     /\ rows[i].class_schedule_id = sid
     /\ rows[i].status = "Active"})

ScheduleGuard_EndsOnLastDay(sid, day) ==
  IF ScheduleRows(sid) = {} THEN "SCHEDULE_NOT_FOUND"
  ELSE LET schedule == CHOOSE r \in ScheduleRows(sid) : TRUE
           validFrom == formatLocalDate(schedule.valid_from)
           validUntil == formatLocalDate(schedule.valid_until)
       IN  IF ~schedule.is_active THEN "CLASS_INACTIVE"
           ELSE IF validFrom # NULL /\ day < validFrom THEN "SCHEDULE_NOT_YET_AVAILABLE"
           ELSE IF validUntil # NULL /\ day >= validUntil THEN "SCHEDULE_ENDED"
           ELSE "ok"

ScheduleGuard_WindowFirst(sid, day) ==
  IF ScheduleRows(sid) = {} THEN "SCHEDULE_NOT_FOUND"
  ELSE LET schedule == CHOOSE r \in ScheduleRows(sid) : TRUE
           validFrom == formatLocalDate(schedule.valid_from)
           validUntil == formatLocalDate(schedule.valid_until)
       IN  IF validFrom # NULL /\ day < validFrom THEN "SCHEDULE_NOT_YET_AVAILABLE"
           ELSE IF validUntil # NULL /\ day > validUntil THEN "SCHEDULE_ENDED"
           ELSE IF ~schedule.is_active THEN "CLASS_INACTIVE"
           ELSE "ok"

\* Guards on the locked schedule row, in the order of the code.
ScheduleGuard(sid, day) ==
  IF ScheduleRows(sid) = {} THEN "SCHEDULE_NOT_FOUND"
  ELSE LET schedule == CHOOSE r \in ScheduleRows(sid) : TRUE
           validFrom == formatLocalDate(schedule.valid_from)
           validUntil == formatLocalDate(schedule.valid_until)
       IN  IF ~schedule.is_active THEN "CLASS_INACTIVE"
           ELSE IF validFrom # NULL /\ day < validFrom THEN "SCHEDULE_NOT_YET_AVAILABLE"
           ELSE IF validUntil # NULL /\ day > validUntil THEN "SCHEDULE_ENDED"
           ELSE "ok"

ClassFull_OffByOne(activeCount, capacity) == activeCount > capacity

\* The capacity test on the count of Active bookings.
ClassFull(activeCount, capacity) == activeCount >= capacity

DuplicateGuard_NoCheck(rows, sid, memberId, now, s) == "ok"

\* The duplicate check, the first plain SELECT of the transaction.
DuplicateGuard(rows, sid, memberId, now, s) ==
  IF ExistingBookings(rows, sid, memberId, now, s) # {} THEN "ALREADY_REGISTERED" ELSE "ok"

\* The capacity check, on the count read in the view of the transaction.
CapacityGuard(rows, sid, s) ==
  IF ClassFull(ActiveCount(rows, sid, s), ClassSchedules[sid].capacity) THEN "CLASS_FULL"
  ELSE "ok"

NewClassBooking_EndsToday(sid, memberId, day, s) ==
  [class_schedule_id |-> sid, member_id |-> memberId, booking_start_date |-> day,
   booking_end_date |-> day, status |-> "Active", owner |-> s]

\* The row registerForClass inserts.
NewClassBooking(sid, memberId, day, s) ==
  [class_schedule_id |-> sid, member_id |-> memberId, booking_start_date |-> day,
   booking_end_date |-> NULL, status |-> "Active", owner |-> s]

\* The record a successful call returns.
RegisterResponse(c) ==
  [booking_id |-> c.bookingId, member_id |-> c.member, class_schedule_id |-> c.target,
   booking_start_date |-> c.day, booking_end_date |-> NULL, status |-> "Active"]

\* The call arrives: connection taken, transaction begun, locking read issued.
RegisterBegin(s, members, targets) ==
  /\ Arrives(s)
  /\ \E m \in members, sid \in targets :
       Connect(s, [Idle EXCEPT !.op = "register", !.pc = "wait",
                               !.member = m, !.target = sid])
  /\ UNCHANGED <<today, clock>>

\* ----------------------------------------------------------- cancelBooking
BookingLockKeys_NoLock(table, bookingId, rows) == {}

\* The row a locking read by booking_id selects, committed or not.
BookingLockKeys(table, bookingId, rows) ==
  IF bookingId \in DOMAIN rows /\ rows[bookingId].owner # RolledBack
  THEN {<<table, bookingId>>}
  ELSE {}

CancelGuard_StatusFirst(bookingId, memberId) ==
  IF bookingId \notin Committed(classBookings) THEN "BOOKING_NOT_FOUND"
  ELSE IF classBookings[bookingId].status = "Canceled" THEN "ALREADY_CANCELED"
  ELSE IF classBookings[bookingId].member_id # memberId THEN "UNAUTHORIZED"
  ELSE "ok"

CancelGuard_NoStatusCheck(bookingId, memberId) ==
  IF bookingId \notin Committed(classBookings) THEN "BOOKING_NOT_FOUND"
  ELSE IF classBookings[bookingId].member_id # memberId THEN "UNAUTHORIZED"
  ELSE "ok"

\* Guards on the locked booking row, in the order of the code.
CancelGuard(bookingId, memberId) ==
  IF bookingId \notin Committed(classBookings) THEN "BOOKING_NOT_FOUND"
  ELSE IF classBookings[bookingId].member_id # memberId THEN "UNAUTHORIZED"
  ELSE IF classBookings[bookingId].status = "Canceled" THEN "ALREADY_CANCELED"
  ELSE "ok"

CancelBegin(s, members, absent) ==
  /\ Arrives(s)
  /\ \E m \in members, b \in 1..(Len(classBookings) + absent) :
       Connect(s, [Idle EXCEPT !.op = "cancel", !.pc = "wait",
                               !.member = m, !.target = b])
  /\ UNCHANGED <<today, clock>>

\* ------------------------------------------------------------ getDayOfWeek
daysMap == <<"SUN", "MON", "TUE", "WED", "THU", "FRI", "SAT">>

\* Day numbers count from a Sunday, so day 1 is a Monday.
getDayOfWeek(date) == daysMap[(date % 7) + 1]

\* ------------------------------------------------- requestTrainerBooking
\* SEC_TO_TIME(TIME_TO_SEC(timeStr) + duration * 60): a TIME, which does not wrap.
EndTime(timeStr, duration) == timeStr + duration

\* DATETIME order: by date, then by time of day.
DateTimeLess(d1, t1, d2, t2) == d1 < d2 \/ (d1 = d2 /\ t1 < t2)

Overlaps_StartInside(b, day, start, end) ==
  /\ DateTimeLess(b.day, b.start_time, day, end)
  /\ ~DateTimeLess(b.day, b.start_time, day, start)

Overlaps_Closed(b, day, start, end) ==
  /\ b.day = day
  /\ b.start_time <= end
  /\ b.start_time + b.duration_minutes >= start

\* start_time < ? AND DATE_ADD(start_time, INTERVAL duration_minutes MINUTE) > ?
\* with the end and the start of the asked interval.  Bookings lie inside a
\* declared window, so the DATE_ADD never carries into the next day.
Overlaps(b, day, start, end) ==
  /\ DateTimeLess(b.day, b.start_time, day, end)
  /\ DateTimeLess(day, start, b.day, b.start_time + b.duration_minutes)

CountsTowardCapacity(status) == status \in {"Pending", "Confirmed"}

\* The day of a start time new Date() cannot parse: an Invalid Date, which
\* compares false with every instant.
InvalidDate == 0 - 1

RequestValidation_NoDurationCheck(day, start, duration, fraction) ==
  IF day # InvalidDate /\ (day < today \/ (day = today /\ start < clock))
  THEN "BOOKING_IN_PAST"
  ELSE IF day = InvalidDate THEN "INVALID_DATE_FORMAT"
  ELSE "ok"

\* Cheap validation before the transaction, in the order of the code: a
\* start is in the past when its instant, day and time of day, is before that
\* of the clock.  A duration is duration + fraction/2 units: an integer when
\* the fraction is 0.
RequestValidation(day, start, duration, fraction) ==
  IF day # InvalidDate /\ (day < today \/ (day = today /\ start < clock))
  THEN "BOOKING_IN_PAST"
  ELSE IF day = InvalidDate THEN "INVALID_DATE_FORMAT"
  ELSE IF fraction # 0 \/ duration <= 0 THEN "INVALID_DURATION"
  ELSE "ok"

AvailSlots_PartialOverlap(trainerId, date, timeStr, duration) ==
  {a \in AvailabilityIds :
     /\ TrainerAvailabilities[a].trainer_id = trainerId
     /\ TrainerAvailabilities[a].status = "Active"
     /\ \/ (TrainerAvailabilities[a].specific_date = date
            /\ TrainerAvailabilities[a].is_recurring = 0)
        \/ (TrainerAvailabilities[a].day_of_week = getDayOfWeek(date)
            /\ TrainerAvailabilities[a].is_recurring = 1)
     /\ TrainerAvailabilities[a].start_time < EndTime(timeStr, duration)
     /\ TrainerAvailabilities[a].end_time > timeStr}

\* The locking read: the Active declarations of the trainer that match the
\* date and contain the whole interval.
AvailSlots(trainerId, date, timeStr, duration) ==
  {a \in AvailabilityIds :
     /\ TrainerAvailabilities[a].trainer_id = trainerId
     /\ TrainerAvailabilities[a].status = "Active"
     /\ \/ (TrainerAvailabilities[a].specific_date = date
            /\ TrainerAvailabilities[a].is_recurring = 0)
        \/ (TrainerAvailabilities[a].day_of_week = getDayOfWeek(date)
            /\ TrainerAvailabilities[a].is_recurring = 1)
     /\ TrainerAvailabilities[a].start_time <= timeStr
     /\ TrainerAvailabilities[a].end_time >= EndTime(timeStr, duration)}

\* COUNT(*) of the trainer's Pending/Confirmed bookings overlapping the interval.
TrainerConflictCount(rows, trainerId, day, start, end, s) ==
  Cardinality({i \in Visible(rows, s) :
     /\ rows[i].trainer_id = trainerId
     /\ CountsTowardCapacity(rows[i].status)
     /\ Overlaps(rows[i], day, start, end)})

\* COUNT(*) of the member's Pending/Confirmed bookings overlapping the
\* interval, in the table as the statement sees it.
MemberTimeConflict(rows, memberId, day, start, end, s) ==
  Cardinality({i \in Visible(rows, s) :
     /\ rows[i].member_id = memberId
     /\ CountsTowardCapacity(rows[i].status)
     /\ Overlaps(rows[i], day, start, end)})

SlotFull_OffByOne(currentTrainerBookings, availSlot) ==
  currentTrainerBookings > TrainerAvailabilities[availSlot].max_concurrent_bookings

\* The capacity test against the declaration taken as availSlots[0].
SlotFull(currentTrainerBookings, availSlot) ==
  currentTrainerBookings + 1 > TrainerAvailabilities[availSlot].max_concurrent_bookings

TrainerGuard_MemberFirst(c, availSlot, rows, s) ==
  IF MemberTimeConflict(rows, c.member, c.day, c.start, EndTime(c.start, c.dur), s) > 0
  THEN "MEMBER_TIME_CONFLICT"
  ELSE IF SlotFull(TrainerConflictCount(rows, c.target, c.day, c.start,
                                        EndTime(c.start, c.dur), s), availSlot)
  THEN "TRAINER_SLOT_FULL"
  ELSE "ok"

\* The capacity check on the trainer's count, the first plain SELECT on a
\* table of the transaction.
TrainerGuard(c, availSlot, rows, s) ==
  IF SlotFull(TrainerConflictCount(rows, c.target, c.day, c.start,
                                   EndTime(c.start, c.dur), s), availSlot)
  THEN "TRAINER_SLOT_FULL"
  ELSE "ok"

MemberGuard_NoCheck(c, rows, s) == "ok"

\* The check on the member's count, read in the view of the transaction.
MemberGuard(c, rows, s) ==
  IF MemberTimeConflict(rows, c.member, c.day, c.start, EndTime(c.start, c.dur), s) > 0
  THEN "MEMBER_TIME_CONFLICT"
  ELSE "ok"

\* The row requestTrainerBooking inserts.
NewTrainerBooking(c, s) ==
  [trainer_id |-> c.target, member_id |-> c.member, day |-> c.day, start_time |-> c.start,
   duration_minutes |-> c.dur, status |-> "Pending", note |-> NoNote, owner |-> s]

\* The record a successful call returns; start_time is the startTime given.
RequestResponse(c) ==
  [booking_id |-> c.bookingId, trainer_id |-> c.target, member_id |-> c.member,
   start_time |-> <<c.day, c.start>>, duration_minutes |-> c.dur, status |-> "Pending"]

\* The call arrives and validates its arguments; a call that fails validation
\* returns without a transaction, one that passes asks the pool for a
\* connection.  A request is <<start, duration>> or <<start, duration, fraction>>.
RequestBegin(s, members, trainers, days, requests) ==
  /\ Arrives(s)
  /\ \E m \in members, t \in trainers, d \in days, r \in requests :
       LET fraction == IF Len(r) = 3 THEN r[3] ELSE 0
           code == RequestValidation(d, r[1], r[2], fraction)
       IN  tx' = [tx EXCEPT ![s] =
                    [Idle EXCEPT !.op = "request",
                                 !.pc = IF code = "ok" THEN "begin" ELSE "done",
                                 !.result = IF code = "ok" THEN "none" ELSE code,
                                 !.member = m, !.target = t, !.day = d,
                                 !.start = r[1], !.dur = r[2], !.frac = fraction]]
  /\ UNCHANGED <<today, clock, classBookings, trainerBookings>>

\* The connection is handed out and the transaction begun; the locking read
\* is issued.
RequestConnect(s) ==
  /\ tx[s].op = "request" /\ tx[s].pc = "begin"
  /\ Connect(s, [tx[s] EXCEPT !.pc = "wait"])
  /\ UNCHANGED <<today, clock>>

\* ---------------------------------------------------------------- the pool
\* db.execute hands its statement to the pool, which runs it on a connection
\* that is free: one with no transaction open (0), or the connection a call
\* released with its transaction open.
PoolConnections == LeftOpen \cup {0}

\* The view a plain SELECT on connection o reads in: the view of the
\* transaction open on it, which this statement opens when it is its first.
ViewOf(o) == IF tx[o].view = NoView THEN OpenView ELSE tx[o].view

\* The calls once a statement has run on connection o.
RunOn(o, calls) == IF o = 0 THEN calls ELSE [calls EXCEPT ![o].view = ViewOf(o)]

\* class_bookings as a plain SELECT on connection o reads it: the committed
\* rows, or the view of the transaction open on o with what it has written.
ReadClassBookings(o) ==
  IF o = 0 THEN Snapshot(classBookings)
  ELSE LET base == ViewOf(o).class_bookings
           own == {i \in DOMAIN classBookings : classBookings[i].owner = o}
       IN  [i \in DOMAIN base \cup own |->
              IF i \in own THEN classBookings[i]
              ELSE IF tx[o].op = "cancel" /\ Updated(o) /\ i = tx[o].target
              THEN [base[i] EXCEPT !.status = "Canceled", !.booking_end_date = tx[o].day]
              ELSE base[i]]

\* trainer_bookings as a plain SELECT on connection o reads it.
ReadTrainerBookings(o) ==
  IF o = 0 THEN Snapshot(trainerBookings)
  ELSE LET base == ViewOf(o).trainer_bookings
           own == {i \in DOMAIN trainerBookings : trainerBookings[i].owner = o}
       IN  [i \in DOMAIN base \cup own |->
              IF i \in own THEN trainerBookings[i]
              ELSE IF tx[o].op = "confirm" /\ Updated(o) /\ i = tx[o].target
              THEN [base[i] EXCEPT !.status = "Confirmed"]
              ELSE IF tx[o].op = "reject" /\ Updated(o) /\ i = tx[o].target
              THEN [base[i] EXCEPT !.status = "Rejected", !.note = RejectionNote(tx[o].reason)]
              ELSE base[i]]

\* ------------------------------------------------- getTrainerAvailability
\* The Active declarations of the trainer that match the date.
Availabilities(trainerId, date) ==
  {a \in AvailabilityIds :
     /\ TrainerAvailabilities[a].trainer_id = trainerId
     /\ TrainerAvailabilities[a].status = "Active"
     /\ \/ (TrainerAvailabilities[a].specific_date = date
            /\ TrainerAvailabilities[a].is_recurring = 0)
        \/ (TrainerAvailabilities[a].day_of_week = getDayOfWeek(date)
            /\ TrainerAvailabilities[a].is_recurring = 1)}

\* COUNT(*) of the trainer's Pending/Confirmed bookings overlapping the window
\* of the declaration on the date, among the rows the statement reads.
BookingCount(rows, trainerId, date, a) ==
  Cardinality({i \in DOMAIN rows :
     /\ rows[i].trainer_id = trainerId
     /\ CountsTowardCapacity(rows[i].status)
     /\ Overlaps(rows[i], date, TrainerAvailabilities[a].start_time,
                 TrainerAvailabilities[a].end_time)})

\* ORDER BY start_time ASC: the orders a result set may come back in; rows
\* of equal start_time come in either order.
OrderByStartTime(rows, table) ==
  {q \in [1..Cardinality(rows) -> rows] :
     \A i, j \in 1..Cardinality(rows) :
       i < j => (q[i] # q[j] /\ table[q[i]].start_time <= table[q[j]].start_time)}

Max(a, b) == IF a >= b THEN a ELSE b

\* The entry of slotsWithCapacity for a declaration, its count taken among the
\* rows the count statement reads.
SlotWithCapacity(rows, trainerId, date, a) ==
  LET currentBookings == BookingCount(rows, trainerId, date, a)
      remainingSpots == Max(TrainerAvailabilities[a].max_concurrent_bookings - currentBookings, 0)
  IN  [availability_id |-> a, trainer_id |-> TrainerAvailabilities[a].trainer_id,
       date |-> date,
       start_time |-> TrainerAvailabilities[a].start_time,
       end_time |-> TrainerAvailabilities[a].end_time,
       max_concurrent_bookings |-> TrainerAvailabilities[a].max_concurrent_bookings,
       current_bookings |-> currentBookings,
       remaining_spots |-> remainingSpots, is_available |-> remainingSpots > 0]

\* slotsWithCapacity in the order of availabilities, then the filter on
\* is_available, which keeps the order.
AvailableSlots(availabilities, counted) ==
  LET slotsWithCapacity ==
        [i \in 1..Len(availabilities) |->
           CHOOSE r \in counted : r.availability_id = availabilities[i]]
      IsAvailable(r) == r.is_available
  IN  SelectSeq(slotsWithCapacity, IsAvailable)

\* The call arrives and reads the declarations on a connection of the pool;
\* with none it returns [].
BrowseBegin(s, trainers, days) ==
  /\ Arrives(s)
  /\ \E t \in trainers, d \in days, o \in PoolConnections :
       \E availabilities \in OrderByStartTime(Availabilities(t, d), TrainerAvailabilities) :
         tx' = RunOn(o, [tx EXCEPT ![s] = [Idle EXCEPT !.op = "browse", !.target = t, !.day = d,
                   !.avail = availabilities,
                   !.pc = IF Len(availabilities) = 0 THEN "done" ELSE "count",
                   !.result = IF Len(availabilities) = 0 THEN "ok" ELSE "none"]])
  /\ UNCHANGED <<today, clock, classBookings, trainerBookings>>

\* The call arrives and its declarations query rejects, run on connection o
\* with its reply lost or not run (0): the catch block throws the error.
BrowseBeginFailure(s, trainers, days) ==
  /\ Arrives(s)
  /\ \E t \in trainers, d \in days, o \in PoolConnections :
       tx' = RunOn(o, [tx EXCEPT ![s] = [Idle EXCEPT !.op = "browse", !.target = t, !.day = d,
                 !.pc = "done", !.result = "DATABASE_ERROR"]])
  /\ UNCHANGED <<today, clock, classBookings, trainerBookings>>

\* The declarations whose count statement is still at the store.
Uncounted(s) ==
  Availabilities(tx[s].target, tx[s].day) \
    ({r.availability_id : r \in tx[s].slots} \cup {tx[s].slot})

\* One of the count statements rejects, run on connection o with its reply
\* lost or not run (0): Promise.all rejects and the catch block throws the
\* error, while the other counts are still at the store.  slot keeps the
\* declaration whose count rejected.
BrowseCountFailure(s) ==
  /\ tx[s].op = "browse" /\ tx[s].pc = "count"
  /\ \E a \in Uncounted(s), o \in PoolConnections :
       tx' = RunOn(o, [tx EXCEPT ![s].pc = "done", ![s].result = "DATABASE_ERROR",
                                 ![s].slot = a])
  /\ UNCHANGED <<today, clock, classBookings, trainerBookings>>

\* A count statement of a call that has thrown runs at the store; its result
\* goes to no one.
BrowseLateCount(s) ==
  /\ tx[s].op = "browse" /\ tx[s].pc = "done" /\ tx[s].result = "DATABASE_ERROR"
  /\ tx[s].slot # 0
  /\ \E a \in Uncounted(s), o \in PoolConnections :
       tx' = RunOn(o, [tx EXCEPT ![s].slots = tx[s].slots \cup
                         {SlotWithCapacity(ReadTrainerBookings(o), tx[s].target, tx[s].day, a)}])
  /\ UNCHANGED <<today, clock, classBookings, trainerBookings>>

\* One of the count statements under Promise.all runs, on a connection of the
\* pool; after the last one the slots without remaining spots are filtered out
\* and the list is returned.
BrowseCount(s) ==
  /\ tx[s].op = "browse" /\ tx[s].pc = "count"
  /\ \E a \in Availabilities(tx[s].target, tx[s].day) \
               {r.availability_id : r \in tx[s].slots},
        o \in PoolConnections :
       LET counted == tx[s].slots \cup
                        {SlotWithCapacity(ReadTrainerBookings(o), tx[s].target, tx[s].day, a)}
       IN  IF {r.availability_id : r \in counted} = Availabilities(tx[s].target, tx[s].day)
           THEN tx' = RunOn(o, [tx EXCEPT ![s].pc = "done", ![s].result = "ok",
                                          ![s].slots = {r \in counted : r.is_available},
                                          ![s].list = AvailableSlots(tx[s].avail, counted)])
           ELSE tx' = RunOn(o, [tx EXCEPT ![s].slots = counted])
  /\ UNCHANGED <<today, clock, classBookings, trainerBookings>>

\* ------------------------------------------------------ getAvailableClasses
\* COALESCE(cb_counts.booked_count, 0): the Active bookings of the schedule in
\* effect on the date, among the rows the statement reads.
BookedCount(bookings, sid, date) ==
  Cardinality({i \in DOMAIN bookings :
     /\ bookings[i].class_schedule_id = sid
     /\ bookings[i].status = "Active"
     /\ bookings[i].booking_start_date <= date
     /\ (bookings[i].booking_end_date = NULL
         \/ bookings[i].booking_end_date >= date)})

\* The rows of the join: schedules of active classes held on the weekday of
\* the date, the date within their validity range.
AvailableScheduleRows(date) ==
  {sid \in ScheduleIds :
     /\ ClassSchedules[sid].class_id \in DOMAIN Classes
     /\ Classes[ClassSchedules[sid].class_id].is_active
     /\ ClassSchedules[sid].day_of_week = getDayOfWeek(date)
     /\ (ClassSchedules[sid].valid_from = NULL \/ ClassSchedules[sid].valid_from <= date)
     /\ (ClassSchedules[sid].valid_until = NULL \/ ClassSchedules[sid].valid_until >= date)}

\* The lists the call may return for the date, one per order of the rows, its
\* counts taken among the bookings the statement reads.
getAvailableClasses(bookings, date) ==
  {[i \in 1..Len(rows) |->
      LET bookedCount == BookedCount(bookings, rows[i], date)
          availableSlots == Max(ClassSchedules[rows[i]].capacity - bookedCount, 0)
      IN  [schedule_id |-> rows[i], start_time |-> ClassSchedules[rows[i]].start_time,
           capacity |-> ClassSchedules[rows[i]].capacity, date |-> date,
           booked_count |-> bookedCount, available_slots |-> availableSlots,
           is_full |-> availableSlots <= 0]] :
     rows \in OrderByStartTime(AvailableScheduleRows(date), ClassSchedules)}

\* The call arrives, runs its one statement on a connection of the pool and
\* returns.
ClassesBrowse(s, days) ==
  /\ Arrives(s)
  /\ \E d \in days, o \in PoolConnections :
       \E rows \in getAvailableClasses(ReadClassBookings(o), d) :
         tx' = RunOn(o, [tx EXCEPT ![s] = [Idle EXCEPT !.op = "classes", !.day = d,
                   !.pc = "done", !.result = "ok", !.classes = rows]])
  /\ UNCHANGED <<today, clock, classBookings, trainerBookings>>

\* The call arrives and its statement rejects, run on connection o with its
\* reply lost or not run (0): the catch block throws the error.
ClassesBrowseFailure(s, days) ==
  /\ Arrives(s)
  /\ \E d \in days, o \in PoolConnections :
       tx' = RunOn(o, [tx EXCEPT ![s] = [Idle EXCEPT !.op = "classes", !.day = d,
                 !.pc = "done", !.result = "DATABASE_ERROR"]])
  /\ UNCHANGED <<today, clock, classBookings, trainerBookings>>

\* ------------------------------ confirmTrainerBooking, rejectTrainerBooking
ConfirmGuard_NoStatusCheck(bookingId, trainerId) ==
  IF bookingId \notin Committed(trainerBookings) THEN "BOOKING_NOT_FOUND"
  ELSE IF trainerBookings[bookingId].trainer_id # trainerId THEN "UNAUTHORIZED"
  ELSE "ok"

\* Guards on the locked booking row, in the order of the code.
ConfirmGuard(bookingId, trainerId) ==
  IF bookingId \notin Committed(trainerBookings) THEN "BOOKING_NOT_FOUND"
  ELSE IF trainerBookings[bookingId].trainer_id # trainerId THEN "UNAUTHORIZED"
  ELSE IF trainerBookings[bookingId].status # "Pending" THEN "INVALID_STATUS"
  ELSE "ok"

RejectGuard_StatusFirst(bookingId, trainerId) ==
  IF bookingId \notin Committed(trainerBookings) THEN "BOOKING_NOT_FOUND"
  ELSE IF trainerBookings[bookingId].status # "Pending" THEN "INVALID_STATUS_TRANSITION"
  ELSE IF trainerBookings[bookingId].trainer_id # trainerId THEN "UNAUTHORIZED"
  ELSE "ok"

\* Guards on the locked booking row, in the order of the code.
RejectGuard(bookingId, trainerId) ==
  IF bookingId \notin Committed(trainerBookings) THEN "BOOKING_NOT_FOUND"
  ELSE IF trainerBookings[bookingId].trainer_id # trainerId THEN "UNAUTHORIZED"
  ELSE IF trainerBookings[bookingId].status # "Pending" THEN "INVALID_STATUS_TRANSITION"
  ELSE "ok"

ConfirmBegin(s, trainers, absent) ==
  /\ Arrives(s)
  /\ \E t \in trainers, b \in 1..(Len(trainerBookings) + absent) :
       Connect(s, [Idle EXCEPT !.op = "confirm", !.pc = "wait",
                               !.member = t, !.target = b])
  /\ UNCHANGED <<today, clock>>

RejectBegin(s, trainers, absent, reasons) ==
  /\ Arrives(s)
  /\ \E t \in trainers, b \in 1..(Len(trainerBookings) + absent), r \in reasons :
       Connect(s, [Idle EXCEPT !.op = "reject", !.pc = "wait",
                               !.member = t, !.target = b, !.reason = r])
  /\ UNCHANGED <<today, clock>>

\* ------------------------------------------------------------ row locks
\* The rows the locking read of the call of s selects.
LockKeys(s) ==
  CASE tx[s].op = "register" -> ScheduleLockKeys(tx[s].target)
    [] tx[s].op = "cancel" -> BookingLockKeys("class_bookings", tx[s].target, classBookings)
    [] tx[s].op = "request" ->
         {<<"trainer_availabilities", a>> :
            a \in AvailSlots(tx[s].target, tx[s].day, tx[s].start, tx[s].dur)}
    [] tx[s].op \in {"confirm", "reject"} ->
         BookingLockKeys("trainer_bookings", tx[s].target, trainerBookings)
    [] OTHER -> {}

\* The row a call has inserted and not yet committed.
InsertedKeys(s) ==
  CASE tx[s].bookingId = 0 -> {}
    [] tx[s].op = "register" -> {<<"class_bookings", tx[s].bookingId>>}
    [] tx[s].op = "request" -> {<<"trainer_bookings", tx[s].bookingId>>}
    [] OTHER -> {}

\* The call holds the lock its locking read was granted and has neither
\* committed nor rolled back.
UnderLock(s) == tx[s].pc \in {"check", "insert", "commit"}

\* The rows s holds: those its locking read was granted and the row it
\* inserted, from the grant to commit or rollback, and past its return when
\* neither ran and the rows were locked.
HeldLocks(s) ==
  IF UnderLock(s) \/ (tx[s].pc = "done" /\ tx[s].leak \in {"locked", "written"})
  THEN tx[s].got \cup InsertedKeys(s)
  ELSE {}

LockFree(s) == \A o \in Slots \ {s} : HeldLocks(o) \cap LockKeys(s) = {}

\* ------------------------------------------- registerForClass, under lock
\* The locking read is granted and, the lock held, the day is read and the
\* guards on the schedule row run.
RegisterLock(s) ==
  /\ tx[s].op = "register" /\ tx[s].pc = "wait"
  /\ LockFree(s)
  /\ LET code == ScheduleGuard(tx[s].target, today)
     IN  IF code # "ok"
         THEN Finish(s, code)
         ELSE tx' = [tx EXCEPT ![s].pc = "check", ![s].day = today, ![s].got = LockKeys(s)]
  /\ UNCHANGED <<today, clock, classBookings, trainerBookings>>

\* The duplicate check: the first plain SELECT of the transaction reads what
\* is committed as it runs, with NOW() the day it runs on, and opens the view
\* the count will read.
RegisterCheck(s) ==
  /\ tx[s].op = "register" /\ tx[s].pc = "check"
  /\ LET code == DuplicateGuard(classBookings, tx[s].target, tx[s].member, today, s)
     IN  IF code # "ok"
         THEN Finish(s, code)
         ELSE tx' = [tx EXCEPT ![s].pc = "insert", ![s].view = OpenView]
  /\ UNCHANGED <<today, clock, classBookings, trainerBookings>>

\* The count, read in the view of the transaction, and the insert, its start
\* date the day read under the lock.
RegisterInsert(s) ==
  /\ tx[s].op = "register" /\ tx[s].pc = "insert"
  /\ LET code == CapacityGuard(tx[s].view.class_bookings, tx[s].target, s)
     IN  IF code # "ok"
         THEN /\ Finish(s, code)
              /\ UNCHANGED classBookings
         ELSE /\ classBookings' = Append(classBookings,
                   NewClassBooking(tx[s].target, tx[s].member, tx[s].day, s))
              /\ tx' = [tx EXCEPT ![s].pc = "commit",
                                  ![s].bookingId = Len(classBookings) + 1]
  /\ UNCHANGED <<today, clock, trainerBookings>>

RegisterCommit(s) ==
  /\ tx[s].op = "register" /\ tx[s].pc = "commit"
  /\ classBookings' = CommitClassBookings(s)
  /\ Finish(s, "ok")
  /\ UNCHANGED <<today, clock, trainerBookings>>

\* -------------------------------------------------- cancelBooking, under lock
\* The locking read of the booking is granted; the guards run.
CancelLock(s) ==
  /\ tx[s].op = "cancel" /\ tx[s].pc = "wait"
  /\ LockFree(s)
  /\ LET code == CancelGuard(tx[s].target, tx[s].member)
     IN  IF code # "ok"
         THEN Finish(s, code)
         ELSE tx' = [tx EXCEPT ![s].pc = "commit", ![s].day = today, ![s].got = LockKeys(s)]
  /\ UNCHANGED <<today, clock, classBookings, trainerBookings>>

CancelCommit_NoEndDate(s) ==
  /\ tx[s].op = "cancel" /\ tx[s].pc = "commit"
  /\ classBookings' = [classBookings EXCEPT ![tx[s].target].status = "Canceled"]
  /\ Finish(s, "ok")
  /\ UNCHANGED <<today, clock, trainerBookings>>

\* The update, its end date the day read before it ran, and the commit.
CancelCommit(s) ==
  /\ tx[s].op = "cancel" /\ tx[s].pc = "commit"
  /\ classBookings' = CommitClassBookings(s)
  /\ Finish(s, "ok")
  /\ UNCHANGED <<today, clock, trainerBookings>>

\* -------------------------------------- requestTrainerBooking, under lock
\* The locking read is granted; availSlots[0] is any of the rows it returns
\* (the query states no order); the trainer's count, the first plain SELECT
\* on a table, reads what is committed as it runs and opens the view the
\* member's count will read.
RequestLock(s) ==
  /\ tx[s].op = "request" /\ tx[s].pc = "wait"
  /\ LockFree(s)
  /\ LET availSlots == AvailSlots(tx[s].target, tx[s].day, tx[s].start, tx[s].dur)
     IN  IF availSlots = {}
         THEN Finish(s, "NO_AVAILABILITY_SLOT")
         ELSE \E availSlot \in availSlots :
                LET code == TrainerGuard(tx[s], availSlot, trainerBookings, s)
                IN  IF code # "ok"
                    THEN tx' = [tx EXCEPT ![s].pc = "done", ![s].result = code,
                                          ![s].slot = availSlot]
                    ELSE tx' = [tx EXCEPT ![s].pc = "insert", ![s].slot = availSlot,
                                          ![s].got = LockKeys(s), ![s].view = OpenView]
  /\ UNCHANGED <<today, clock, classBookings, trainerBookings>>

\* The member's count, read in the view of the transaction, and the insert.
RequestInsert(s) ==
  /\ tx[s].op = "request" /\ tx[s].pc = "insert"
  /\ LET code == MemberGuard(tx[s], tx[s].view.trainer_bookings, s)
     IN  IF code # "ok"
         THEN /\ Finish(s, code)
              /\ UNCHANGED trainerBookings
         ELSE /\ trainerBookings' = Append(trainerBookings, NewTrainerBooking(tx[s], s))
              /\ tx' = [tx EXCEPT ![s].pc = "commit",
                                  ![s].bookingId = Len(trainerBookings) + 1]
  /\ UNCHANGED <<today, clock, classBookings>>

RequestCommit(s) ==
  /\ tx[s].op = "request" /\ tx[s].pc = "commit"
  /\ trainerBookings' = CommitTrainerBookings(s)
  /\ Finish(s, "ok")
  /\ UNCHANGED <<today, clock, classBookings>>

\* ------------------------------------------- confirm and reject, under lock
ConfirmLock(s) ==
  /\ tx[s].op = "confirm" /\ tx[s].pc = "wait"
  /\ LockFree(s)
  /\ LET code == ConfirmGuard(tx[s].target, tx[s].member)
     IN  IF code # "ok"
         THEN Finish(s, code)
         ELSE tx' = [tx EXCEPT ![s].pc = "commit", ![s].got = LockKeys(s)]
  /\ UNCHANGED <<today, clock, classBookings, trainerBookings>>

ConfirmCommit(s) ==
  /\ tx[s].op = "confirm" /\ tx[s].pc = "commit"
  /\ trainerBookings' = CommitTrainerBookings(s)
  /\ Finish(s, "ok")
  /\ UNCHANGED <<today, clock, classBookings>>

RejectLock(s) ==
  /\ tx[s].op = "reject" /\ tx[s].pc = "wait"
  /\ LockFree(s)
  /\ LET code == RejectGuard(tx[s].target, tx[s].member)
     IN  IF code # "ok"
         THEN Finish(s, code)
         ELSE tx' = [tx EXCEPT ![s].pc = "commit", ![s].got = LockKeys(s)]
  /\ UNCHANGED <<today, clock, classBookings, trainerBookings>>

RejectCommit(s) ==
  /\ tx[s].op = "reject" /\ tx[s].pc = "commit"
  /\ trainerBookings' = CommitTrainerBookings(s)
  /\ Finish(s, "ok")
  /\ UNCHANGED <<today, clock, classBookings>>

\* ----------------------------------------------------- failing statements
\* A call to connection.rollback() resolves or rejects.
RollbackOutcomes == {"ok", "failed"}

\* The typed error the guard the call of s has come to raises: the guards on
\* the locked rows once the lock is granted, then each check on the bookings
\* as its statement runs.
GuardCodes(s) ==
  CASE tx[s].op = "register" /\ tx[s].pc = "wait" -> {ScheduleGuard(tx[s].target, today)}
    [] tx[s].op = "register" /\ tx[s].pc = "check" ->
         {DuplicateGuard(classBookings, tx[s].target, tx[s].member, today, s)}
    [] tx[s].op = "register" /\ tx[s].pc = "insert" ->
         {CapacityGuard(tx[s].view.class_bookings, tx[s].target, s)}
    [] tx[s].op = "cancel" /\ tx[s].pc = "wait" -> {CancelGuard(tx[s].target, tx[s].member)}
    [] tx[s].op = "request" /\ tx[s].pc = "wait" ->
         IF AvailSlots(tx[s].target, tx[s].day, tx[s].start, tx[s].dur) = {}
         THEN {"NO_AVAILABILITY_SLOT"}
         ELSE {TrainerGuard(tx[s], a, trainerBookings, s) :
                 a \in AvailSlots(tx[s].target, tx[s].day, tx[s].start, tx[s].dur)}
    [] tx[s].op = "request" /\ tx[s].pc = "insert" ->
         {MemberGuard(tx[s], tx[s].view.trainer_bookings, s)}
    [] tx[s].op = "confirm" /\ tx[s].pc = "wait" -> {ConfirmGuard(tx[s].target, tx[s].member)}
    [] tx[s].op = "reject" /\ tx[s].pc = "wait" -> {RejectGuard(tx[s].target, tx[s].member)}
    [] OTHER -> {}

\* What the caller gets when a statement threw: the catch block rolls back;
\* four services swallow a failure of that rollback, rejectTrainerBooking
\* awaits it unguarded and so throws it.
ExitStore(op, rollback) ==
  IF op = "reject" /\ rollback = "failed" THEN "ROLLBACK_ERROR" ELSE "STORE_ERROR"

\* The transaction after the exit: closed by a rollback that worked, else
\* left open on the released connection, with the rows it had locked.
Leak(rollback, granted) ==
  IF rollback = "ok" THEN "none" ELSE IF granted THEN "locked" ELSE "open"

\* The statement that throws while the call waits: beginTransaction, no
\* transaction begun ("begin"), the locking read before its grant, a
\* lock-wait timeout included ("read"), or a statement after the grant
\* ("granted").  A request has begun its transaction when it waits.
WaitFailures(s) ==
  (IF tx[s].op = "request" THEN {} ELSE {"begin"})
    \cup (IF LockFree(s) THEN {"read", "granted"} ELSE {"read"})

\* The statement that throws once the guards have passed: the write of
\* cancel, confirm or reject ("write"; the insert of register and request has
\* run by then), the COMMIT with nothing committed ("commit"), or the COMMIT
\* after the store applied it, its reply lost ("applied").
CommitFailures(s) ==
  IF tx[s].op \in {"cancel", "confirm", "reject"} THEN {"write", "commit", "applied"}
  ELSE {"commit", "applied"}

\* What is left of the transaction when the rollback of the catch block
\* rejects after the statement at stage threw.
LeakAt(stage) ==
  CASE stage \in {"begin", "applied"} -> "none"
    [] stage = "read" -> "open"
    [] stage = "commit" -> "written"
    [] OTHER -> "locked"

\* Whether the statement that throws was run by the store, its reply lost:
\* of the statements after the grant, the duplicate check of a registration
\* and the capacity count of a request are the first plain SELECT of their
\* transaction, and open its view when they run.
ReplyLost(s, stage) ==
  IF stage = "granted" /\ \/ (tx[s].op = "register" /\ tx[s].pc = "check")
                          \/ (tx[s].op = "request" /\ tx[s].pc = "wait")
  THEN {FALSE, TRUE}
  ELSE {FALSE}

\* A statement of the call throws.  The catch block rolls back, finally
\* releases the connection, the error is thrown.  A transaction the rollback
\* did not close stays on the connection with its view, its locks and what it
\* wrote.
StoreFailure(s) ==
  /\ tx[s].pc \in {"begin", "wait", "check", "insert", "commit"}
  /\ \E rollback \in RollbackOutcomes,
        stage \in CASE tx[s].pc = "begin" -> {"begin"}
                    [] tx[s].pc = "wait" -> WaitFailures(s)
                    [] tx[s].pc = "commit" -> CommitFailures(s)
                    [] OTHER -> {"granted"} :
     \E lost \in ReplyLost(s, stage) :
       LET leak == IF rollback = "ok" THEN "none" ELSE LeakAt(stage)
       IN  /\ tx' = [tx EXCEPT ![s].pc = "done", ![s].primary = "STORE_ERROR",
                               ![s].result = ExitStore(tx[s].op, rollback),
                               ![s].leak = leak,
                               ![s].view = IF leak = "none" THEN NoView
                                           ELSE IF lost THEN OpenView
                                           ELSE tx[s].view,
                               ![s].got = IF leak \notin {"locked", "written"} THEN {}
                                          ELSE IF tx[s].pc = "wait" THEN LockKeys(s)
                                          ELSE tx[s].got]
           /\ IF stage = "applied"
              THEN /\ classBookings' = CommitClassBookings(s)
                   /\ trainerBookings' = CommitTrainerBookings(s)
              ELSE IF rollback = "ok"
              THEN /\ classBookings' = RollbackRows(classBookings, s)
                   /\ trainerBookings' = RollbackRows(trainerBookings, s)
              ELSE UNCHANGED <<classBookings, trainerBookings>>
  /\ UNCHANGED <<today, clock>>

\* The guards whose plain SELECT has run when they fail: the duplicate check
\* of a registration and the capacity check of a request, the first of their
\* transaction.
GuardHasRead(s, code) ==
  \/ (tx[s].op = "register" /\ tx[s].pc = "check")
  \/ (tx[s].op = "request" /\ tx[s].pc = "wait" /\ code = "TRAINER_SLOT_FULL")

\* A guard fails and the rollback awaited before its throw rejects: that
\* rejection is what reaches the catch block, whose own rollback follows.
GuardRollbackFailure(s) ==
  /\ tx[s].pc \in {"wait", "check", "insert"}
  /\ tx[s].pc = "wait" => LockFree(s)
  /\ \E code \in GuardCodes(s) \ {"ok"}, rollback \in RollbackOutcomes :
       LET leak == Leak(rollback, TRUE)
       IN  tx' = [tx EXCEPT ![s].pc = "done", ![s].primary = code,
                            ![s].result = "ROLLBACK_ERROR",
                            ![s].leak = leak,
                            ![s].view = IF leak = "none" THEN NoView
                                        ELSE IF GuardHasRead(s, code) THEN OpenView
                                        ELSE tx[s].view,
                            ![s].got = IF leak = "none" THEN {}
                                       ELSE IF tx[s].pc = "wait" THEN LockKeys(s)
                                       ELSE tx[s].got]
  /\ UNCHANGED <<today, clock, classBookings, trainerBookings>>

\* The server ends a transaction left open when its connection closes: its
\* rows, its pending write, its view and its locks go.
ServerAborts(s) ==
  /\ tx[s].pc = "done" /\ tx[s].leak # "none"
  /\ tx' = [tx EXCEPT ![s].leak = "none", ![s].view = NoView, ![s].got = {}]
  /\ classBookings' = RollbackRows(classBookings, s)
  /\ trainerBookings' = RollbackRows(trainerBookings, s)
  /\ UNCHANGED <<today, clock>>

\* ------------------------------------------------------------------ clock
Tick ==
  /\ today < MaxDay
  /\ today' = today + 1
  /\ clock' = Midnight
  /\ UNCHANGED <<classBookings, trainerBookings, tx>>

\* The day goes on to one of the given times.
ClockAdvance(times) ==
  /\ \E t \in times : t > clock /\ clock' = t
  /\ UNCHANGED <<today, classBookings, trainerBookings, tx>>

NextClass ==
  \/ Tick
  \/ \E s \in ThreeCalls : RegisterBegin(s, Members, OpenSchedules)
  \/ \E s \in ThreeCalls : RegisterLock(s)
  \/ \E s \in ThreeCalls : RegisterCheck(s)
  \/ \E s \in ThreeCalls : RegisterInsert(s)
  \/ \E s \in ThreeCalls : RegisterCommit(s)
  \/ \E s \in ThreeCalls : CancelBegin(s, Members, 0)
  \/ \E s \in ThreeCalls : CancelLock(s)
  \/ \E s \in ThreeCalls : CancelCommit(s)

SpecClass == Init /\ [][NextClass]_vars
NextTrainer ==
  \/ ClockAdvance({1, 12})
  \/ \E s \in ThreeCalls : RequestBegin(s, {1, 2}, Trainers, {1}, Requests)
  \/ \E s \in ThreeCalls : RequestConnect(s)
  \/ \E s \in ThreeCalls : RequestLock(s)
  \/ \E s \in ThreeCalls : RequestInsert(s)
  \/ \E s \in ThreeCalls : RequestCommit(s)
  \/ \E s \in ThreeCalls : ConfirmBegin(s, Trainers, 0)
  \/ \E s \in ThreeCalls : ConfirmLock(s)
  \/ \E s \in ThreeCalls : ConfirmCommit(s)
  \/ \E s \in ThreeCalls : RejectBegin(s, Trainers, 0, {"busy"})
  \/ \E s \in ThreeCalls : RejectLock(s)
  \/ \E s \in ThreeCalls : RejectCommit(s)

SpecTrainer == Init /\ [][NextTrainer]_vars

\* The rush on one schedule: every call registers one of NumTx actors on the
\* schedule the first call chose, and nothing else runs.
RushTargets == {sid \in OpenSchedules : \A o \in Slots : tx[o].target \in {0, sid}}

NextRush ==
  \/ \E s \in Slots : RegisterBegin(s, Slots, RushTargets)
  \/ \E s \in Slots : RegisterLock(s)
  \/ \E s \in Slots : RegisterCheck(s)
  \/ \E s \in Slots : RegisterInsert(s)
  \/ \E s \in Slots : RegisterCommit(s)

SpecRush == Init /\ [][NextRush]_vars

\* Every operation on one schedule and one trainer, by both members.
NextLifecycle ==
  \/ ClockAdvance({12})
  \/ \E s \in ThreeCalls : RegisterBegin(s, Members, {1})
  \/ \E s \in ThreeCalls : RegisterLock(s)
  \/ \E s \in ThreeCalls : RegisterCheck(s)
  \/ \E s \in ThreeCalls : RegisterInsert(s)
  \/ \E s \in ThreeCalls : RegisterCommit(s)
  \/ \E s \in ThreeCalls : CancelBegin(s, Members, 0)
  \/ \E s \in ThreeCalls : CancelLock(s)
  \/ \E s \in ThreeCalls : CancelCommit(s)
  \/ \E s \in ThreeCalls : RequestBegin(s, Members, {1}, {1}, {<<0, 2>>, <<2, 2>>})
  \/ \E s \in ThreeCalls : RequestConnect(s)
  \/ \E s \in ThreeCalls : RequestLock(s)
  \/ \E s \in ThreeCalls : RequestInsert(s)
  \/ \E s \in ThreeCalls : RequestCommit(s)
  \/ \E s \in ThreeCalls : ConfirmBegin(s, {1}, 0)
  \/ \E s \in ThreeCalls : ConfirmLock(s)
  \/ \E s \in ThreeCalls : ConfirmCommit(s)
  \/ \E s \in ThreeCalls : RejectBegin(s, {1}, 0, {"busy"})
  \/ \E s \in ThreeCalls : RejectLock(s)
  \/ \E s \in ThreeCalls : RejectCommit(s)

SpecLifecycle == Init /\ [][NextLifecycle]_vars

\* One request or one browse against a table that holds one booking of any
\* interval within 0..MaxTime on any day.
Intervals == {iv \in Days \X (0..(MaxTime - 1)) \X (1..MaxTime) : iv[2] + iv[3] <= MaxTime}

InitOverlap ==
  /\ today = 1
  /\ clock = Midnight
  /\ classBookings = <<>>
  /\ trainerBookings \in
       {<<[trainer_id |-> 1, member_id |-> 1, day |-> iv[1], start_time |-> iv[2],
           duration_minutes |-> iv[3], status |-> "Pending", note |-> NoNote, owner |-> 0]>> :
          iv \in Intervals}
  /\ tx = [s \in Slots |-> Idle]

NextOverlap ==
  \/ ClockAdvance({12})
  \/ RequestBegin(1, Members, Trainers, Days, {<<iv[2], iv[3]>> : iv \in Intervals})
  \/ RequestConnect(1)
  \/ RequestLock(1)
  \/ RequestInsert(1)
  \/ RequestCommit(1)
  \/ BrowseBegin(1, Trainers, Days)
  \/ BrowseCount(1)

SpecOverlap == InitOverlap /\ [][NextOverlap]_vars

\* Every operation, with statements and rollbacks that may fail.
NextFailure ==
  \/ ClockAdvance({12})
  \/ \E s \in ThreeCalls : RegisterBegin(s, {1}, {1})
  \/ \E s \in ThreeCalls : RegisterLock(s)
  \/ \E s \in ThreeCalls : RegisterCheck(s)
  \/ \E s \in ThreeCalls : RegisterInsert(s)
  \/ \E s \in ThreeCalls : RegisterCommit(s)
  \/ \E s \in ThreeCalls : CancelBegin(s, {1}, 0)
  \/ \E s \in ThreeCalls : CancelLock(s)
  \/ \E s \in ThreeCalls : CancelCommit(s)
  \/ \E s \in ThreeCalls : RequestBegin(s, Members, {1}, {1}, {<<0, 2>>})
  \/ \E s \in ThreeCalls : RequestConnect(s)
  \/ \E s \in ThreeCalls : RequestLock(s)
  \/ \E s \in ThreeCalls : RequestInsert(s)
  \/ \E s \in ThreeCalls : RequestCommit(s)
  \/ \E s \in ThreeCalls : ConfirmBegin(s, {1}, 0)
  \/ \E s \in ThreeCalls : ConfirmLock(s)
  \/ \E s \in ThreeCalls : ConfirmCommit(s)
  \/ \E s \in ThreeCalls : RejectBegin(s, {1}, 0, {"busy"})
  \/ \E s \in ThreeCalls : RejectLock(s)
  \/ \E s \in ThreeCalls : RejectCommit(s)
  \/ \E s \in ThreeCalls : StoreFailure(s)
  \/ \E s \in ThreeCalls : GuardRollbackFailure(s)
  \/ \E s \in ThreeCalls : ServerAborts(s)

SpecFailure == Init /\ [][NextFailure]_vars

\* Requests with well-formed and ill-formed start times and durations.
NextValidation ==
  \/ Tick
  \/ ClockAdvance({1})
  \/ \E s \in ThreeCalls :
       RequestBegin(s, {1}, {1}, Days \cup {InvalidDate},
                    {<<0, 2>>, <<0, 0>>, <<0, 0 - 2>>, <<0, 2, 1>>})
  \/ \E s \in ThreeCalls : RequestConnect(s)
  \/ \E s \in ThreeCalls : RequestLock(s)
  \/ \E s \in ThreeCalls : RequestInsert(s)
  \/ \E s \in ThreeCalls : RequestCommit(s)

SpecValidation == Init /\ [][NextValidation]_vars

\* Cancellations of bookings of one schedule, of ids with and without a row,
\* by the member of the booking and by the other members, over the days.
NextCancel ==
  \/ Tick
  \/ \E s \in ThreeCalls : RegisterBegin(s, Members, {2})
  \/ \E s \in ThreeCalls : RegisterLock(s)
  \/ \E s \in ThreeCalls : RegisterCheck(s)
  \/ \E s \in ThreeCalls : RegisterInsert(s)
  \/ \E s \in ThreeCalls : RegisterCommit(s)
  \/ \E s \in ThreeCalls : CancelBegin(s, Members, 1)
  \/ \E s \in ThreeCalls : CancelLock(s)
  \/ \E s \in ThreeCalls : CancelCommit(s)

SpecCancel == Init /\ [][NextCancel]_vars

\* Decisions on the bookings of one trainer, on ids with and without a row,
\* by that trainer and by the other one, with and without a reason.
NextDecide ==
  \/ ClockAdvance({12})
  \/ \E s \in ThreeCalls : RequestBegin(s, {1}, {1}, {1}, {<<0, 2>>})
  \/ \E s \in ThreeCalls : RequestConnect(s)
  \/ \E s \in ThreeCalls : RequestLock(s)
  \/ \E s \in ThreeCalls : RequestInsert(s)
  \/ \E s \in ThreeCalls : RequestCommit(s)
  \/ \E s \in ThreeCalls : ConfirmBegin(s, Trainers, 1)
  \/ \E s \in ThreeCalls : ConfirmLock(s)
  \/ \E s \in ThreeCalls : ConfirmCommit(s)
  \/ \E s \in ThreeCalls : RejectBegin(s, Trainers, 1, {"NULL", "", "busy"})
  \/ \E s \in ThreeCalls : RejectLock(s)
  \/ \E s \in ThreeCalls : RejectCommit(s)

SpecDecide == Init /\ [][NextDecide]_vars

\* Requests to the trainer whose day is declared as two adjacent windows
\* 09:00-09:30 and 09:30-10:00, with an Inactive declaration over both.
NextFit ==
  \/ ClockAdvance({12})
  \/ \E s \in ThreeCalls :
       RequestBegin(s, {1, 2}, {3}, {1, 2}, {<<0, 2>>, <<1, 2>>, <<2, 2>>, <<3, 2>>, <<0, 4>>})
  \/ \E s \in ThreeCalls : RequestConnect(s)
  \/ \E s \in ThreeCalls : RequestLock(s)
  \/ \E s \in ThreeCalls : RequestInsert(s)
  \/ \E s \in ThreeCalls : RequestCommit(s)

SpecFit == Init /\ [][NextFit]_vars

\* Browsing of a trainer and of the classes on tables that hold one committed
\* booking of the trainer and one committed registration, while members
\* request, the trainer rejects, a member registers, and statements and
\* rollbacks may fail.
PoolBooking ==
  [trainer_id |-> 1, member_id |-> 1, day |-> 1, start_time |-> 0,
   duration_minutes |-> 2, status |-> "Pending", note |-> NoNote, owner |-> 0]

PoolRegistration ==
  [class_schedule_id |-> 1, member_id |-> 1, booking_start_date |-> 1,
   booking_end_date |-> NULL, status |-> "Active", owner |-> 0]

InitPool ==
  /\ today = 1
  /\ clock = Midnight
  /\ classBookings = <<PoolRegistration>>
  /\ trainerBookings = <<PoolBooking>>
  /\ tx = [s \in Slots |-> Idle]

NextPool ==
  \/ \E s \in ThreeCalls : BrowseBegin(s, {1}, {1})
  \/ \E s \in ThreeCalls : BrowseCount(s)
  \/ \E s \in ThreeCalls : ClassesBrowse(s, {1})
  \/ \E s \in ThreeCalls : BrowseBeginFailure(s, {1}, {1})
  \/ \E s \in ThreeCalls : BrowseCountFailure(s)
  \/ \E s \in ThreeCalls : BrowseLateCount(s)
  \/ \E s \in ThreeCalls : ClassesBrowseFailure(s, {1})
  \/ \E s \in ThreeCalls : RequestBegin(s, {1, 2}, {1}, {1}, {<<0, 2>>, <<2, 2>>})
  \/ \E s \in ThreeCalls : RequestConnect(s)
  \/ \E s \in ThreeCalls : RequestLock(s)
  \/ \E s \in ThreeCalls : RequestInsert(s)
  \/ \E s \in ThreeCalls : RequestCommit(s)
  \/ \E s \in ThreeCalls : RejectBegin(s, {1}, 0, {"busy"})
  \/ \E s \in ThreeCalls : RejectLock(s)
  \/ \E s \in ThreeCalls : RejectCommit(s)
  \/ \E s \in ThreeCalls : ConfirmBegin(s, {1}, 0)
  \/ \E s \in ThreeCalls : ConfirmLock(s)
  \/ \E s \in ThreeCalls : ConfirmCommit(s)
  \/ \E s \in ThreeCalls : RegisterBegin(s, {2}, {2})
  \/ \E s \in ThreeCalls : RegisterLock(s)
  \/ \E s \in ThreeCalls : RegisterCheck(s)
  \/ \E s \in ThreeCalls : RegisterInsert(s)
  \/ \E s \in ThreeCalls : RegisterCommit(s)
  \/ \E s \in ThreeCalls : StoreFailure(s)
  \/ \E s \in ThreeCalls : GuardRollbackFailure(s)
  \/ \E s \in ThreeCalls : ServerAborts(s)

SpecPool == InitPool /\ [][NextPool]_vars

\* Registrations for a schedule that is not in the table, for the schedule of
\* the retired class, for schedule 6 and for schedules that fill up or end.
NextOrder ==
  \/ Tick
  \/ \E s \in ThreeCalls : RegisterBegin(s, Members, {1, 3, 5, 6, 9})
  \/ \E s \in ThreeCalls : RegisterLock(s)
  \/ \E s \in ThreeCalls : RegisterCheck(s)
  \/ \E s \in ThreeCalls : RegisterInsert(s)
  \/ \E s \in ThreeCalls : RegisterCommit(s)

SpecOrder == Init /\ [][NextOrder]_vars

\* Registrations for a schedule of one seat and for a schedule that ends, and
\* cancellations of the bookings made, while the days pass.
NextSeat ==
  \/ Tick
  \/ \E s \in ThreeCalls : RegisterBegin(s, Members, {1, 3})
  \/ \E s \in ThreeCalls : RegisterLock(s)
  \/ \E s \in ThreeCalls : RegisterCheck(s)
  \/ \E s \in ThreeCalls : RegisterInsert(s)
  \/ \E s \in ThreeCalls : RegisterCommit(s)
  \/ \E s \in ThreeCalls : CancelBegin(s, Members, 0)
  \/ \E s \in ThreeCalls : CancelLock(s)
  \/ \E s \in ThreeCalls : CancelCommit(s)

SpecSeat == Init /\ [][NextSeat]_vars

\* Registrations and requests while the days pass.
NextInsert ==
  \/ ClockAdvance({12})
  \/ Tick
  \/ \E s \in ThreeCalls : RegisterBegin(s, {1, 2}, OpenSchedules)
  \/ \E s \in ThreeCalls : RegisterLock(s)
  \/ \E s \in ThreeCalls : RegisterCheck(s)
  \/ \E s \in ThreeCalls : RegisterInsert(s)
  \/ \E s \in ThreeCalls : RegisterCommit(s)
  \/ \E s \in ThreeCalls : RequestBegin(s, {1, 2}, {1}, {1, 2}, {<<0, 2>>, <<2, 2>>})
  \/ \E s \in ThreeCalls : RequestConnect(s)
  \/ \E s \in ThreeCalls : RequestLock(s)
  \/ \E s \in ThreeCalls : RequestInsert(s)
  \/ \E s \in ThreeCalls : RequestCommit(s)

SpecInsert == Init /\ [][NextInsert]_vars

\* Registrations over the days on the schedules that have a validity window.
NextWindow ==
  \/ Tick
  \/ \E s \in ThreeCalls : RegisterBegin(s, Members, WindowSchedules)
  \/ \E s \in ThreeCalls : RegisterLock(s)
  \/ \E s \in ThreeCalls : RegisterCheck(s)
  \/ \E s \in ThreeCalls : RegisterInsert(s)
  \/ \E s \in ThreeCalls : RegisterCommit(s)

SpecWindow == Init /\ [][NextWindow]_vars

\* ================================================================ claims
ActiveRows(sid) ==
  {i \in DOMAIN classBookings :
     classBookings[i].class_schedule_id = sid /\ classBookings[i].status = "Active"}

\* C1: for every class schedule, in every state any interleaving of Register
\* and Cancel transactions reaches, the Active bookings of the schedule
\* (those still uncommitted included) number at most its capacity.
C1_ClassCapacity ==
  \A sid \in ScheduleIds : Cardinality(ActiveRows(sid)) <= ClassSchedules[sid].capacity

\* A schedule is at capacity and a Register on it was turned away.
C1_Witness ==
  \E s \in Slots :
    /\ tx[s].op = "register" /\ tx[s].result = "CLASS_FULL"
    /\ Cardinality(ActiveRows(tx[s].target)) = ClassSchedules[tx[s].target].capacity

Min(a, b) == IF a <= b THEN a ELSE b

RushDone == \A s \in Slots : tx[s].op = "register" /\ tx[s].pc = "done"

RushDistinct == \A s, o \in Slots : s # o => tx[s].member # tx[o].member

\* C2: when NumTx = C + K Register calls by distinct actors run concurrently
\* against an empty, active, in-window schedule of capacity C and nothing
\* else runs, exactly C return Active and exactly K fail with CLASS_FULL.
C2_RushExactlyCapacity ==
  (RushDone /\ RushDistinct) =>
    \A sid \in ScheduleIds :
      (\A s \in Slots : tx[s].target = sid) =>
        /\ Cardinality({s \in Slots : tx[s].result = "ok"})
             = Min(ClassSchedules[sid].capacity, NumTx)
        /\ Cardinality({s \in Slots : tx[s].result = "CLASS_FULL"})
             = NumTx - Min(ClassSchedules[sid].capacity, NumTx)
        /\ \A s \in Slots : tx[s].result = "ok" =>
             /\ classBookings[tx[s].bookingId].status = "Active"
             /\ classBookings[tx[s].bookingId].member_id = tx[s].member

\* The rush on the schedule of capacity 1 is over: one winner, the rest turned away.
C2_Witness ==
  /\ RushDone /\ RushDistinct
  /\ \A s \in Slots : tx[s].target = 1
  /\ \E s \in Slots : tx[s].result = "ok"
  /\ \E s \in Slots : tx[s].result = "CLASS_FULL"

\* The step by which the locking read of call s is granted and the guards on
\* the rows it locked run.
LockStep(s, op) == tx[s].op = op /\ tx[s].pc = "wait" /\ tx'[s].pc # "wait"

\* The step by which the duplicate check of a registration runs.
CheckStep(s) == tx[s].op = "register" /\ tx[s].pc = "check" /\ tx'[s].pc # "check"

\* The step by which the last count of call s is tested and its insert runs.
InsertStep(s, op) == tx[s].op = op /\ tx[s].pc = "insert" /\ tx'[s].pc # "insert"

\* The rows a call reads from are those committed in the table now.
ReadsCommitted(seen, rows) ==
  /\ DOMAIN seen = Committed(rows)
  /\ \A i \in Committed(rows) : seen[i] = rows[i]

\* What a call has read stays what it reads until its insert.
ViewKept ==
  \A s \in Slots : (tx[s].pc = "insert" /\ tx'[s].pc = "insert") => tx'[s].view = tx[s].view

HoldsActive(memberId, sid) ==
  \E i \in Committed(classBookings) :
    /\ classBookings[i].class_schedule_id = sid
    /\ classBookings[i].member_id = memberId
    /\ classBookings[i].status = "Active"

C3_NoDuplicate ==
  \A i, j \in DOMAIN classBookings :
    (/\ i # j
     /\ classBookings[i].status = "Active" /\ classBookings[j].status = "Active"
     /\ classBookings[i].class_schedule_id = classBookings[j].class_schedule_id)
      => classBookings[i].member_id # classBookings[j].member_id

C3_SecondFails ==
  \A s \in Slots :
    (CheckStep(s) /\ HoldsActive(tx[s].member, tx[s].target))
      => (tx'[s].result = "ALREADY_REGISTERED" /\ classBookings' = classBookings)

\* C3: no actor ever holds two Active bookings of one schedule, and a Register
\* by an actor who holds an Active booking of the schedule when its duplicate
\* check runs (the second of two concurrent calls, once the first has
\* committed) fails ALREADY_REGISTERED and inserts nothing.
C3_NoDuplicateActive == [](C3_NoDuplicate) /\ [][C3_SecondFails]_vars

\* Two calls by one actor on one schedule are over: one holds the Active
\* booking, the other was refused as a duplicate.
C3_Witness ==
  \E s, o \in Slots :
    /\ s # o
    /\ tx[s].op = "register" /\ tx[o].op = "register"
    /\ tx[s].member = tx[o].member /\ tx[s].target = tx[o].target
    /\ tx[s].result = "ok" /\ tx[o].result = "ALREADY_REGISTERED"
    /\ classBookings[tx[s].bookingId].status = "Active"
ClassEdges ==
  /\ Len(classBookings') >= Len(classBookings)
  /\ \A i \in DOMAIN classBookings' :
       IF i \in DOMAIN classBookings
       THEN \/ classBookings'[i].status = classBookings[i].status
            \/ (classBookings[i].status = "Active" /\ classBookings'[i].status = "Canceled")
       ELSE classBookings'[i].status = "Active"

TrainerEdges ==
  /\ Len(trainerBookings') >= Len(trainerBookings)
  /\ \A i \in DOMAIN trainerBookings' :
       IF i \in DOMAIN trainerBookings
       THEN \/ trainerBookings'[i].status = trainerBookings[i].status
            \/ (/\ trainerBookings[i].status = "Pending"
                /\ trainerBookings'[i].status \in {"Confirmed", "Rejected"})
       ELSE trainerBookings'[i].status = "Pending"

\* C6: a class booking is created Active and its status only changes from
\* Active to Canceled; a trainer booking is created Pending and its status
\* only changes from Pending to Confirmed or to Rejected; so a Canceled,
\* Confirmed or Rejected booking keeps its status through every later call.
C6_StatusMachines == [][ClassEdges /\ TrainerEdges]_vars

\* A Rejected booking has withstood a later Confirm by its trainer.
C6_Witness ==
  \E s \in Slots :
    /\ tx[s].op = "confirm" /\ tx[s].result = "INVALID_STATUS"
    /\ trainerBookings[tx[s].target].status = "Rejected"
    /\ trainerBookings[tx[s].target].trainer_id = tx[s].member

OwnCanceled(s) ==
  /\ tx[s].target \in Committed(classBookings)
  /\ classBookings[tx[s].target].member_id = tx[s].member
  /\ classBookings[tx[s].target].status = "Canceled"

C8_RefusedStep ==
  \A s \in Slots :
    (LockStep(s, "cancel") /\ OwnCanceled(s))
      => (tx'[s].result = "ALREADY_CANCELED" /\ classBookings' = classBookings)

C8_CanceledKept ==
  \A i \in DOMAIN classBookings :
    classBookings[i].status = "Canceled" => classBookings'[i] = classBookings[i]

\* C8: a Cancel by the owner of a booking that is already Canceled fails
\* ALREADY_CANCELED, and a Canceled booking is never written again: its
\* status and the end date of the first cancellation stay.
C8_CancelTwice == [][C8_RefusedStep /\ C8_CanceledKept]_vars

\* The owner's second Cancel was refused on a later day than the first one ran.
C8_Witness ==
  \E s \in Slots :
    /\ tx[s].op = "cancel" /\ tx[s].result = "ALREADY_CANCELED"
    /\ classBookings[tx[s].target].member_id = tx[s].member
    /\ classBookings[tx[s].target].status = "Canceled"
    /\ classBookings[tx[s].target].booking_end_date < today
\* The declaration is Active and applies on the day.
Declared(a, d) ==
  /\ TrainerAvailabilities[a].status = "Active"
  /\ \/ (TrainerAvailabilities[a].is_recurring = 0 /\ TrainerAvailabilities[a].specific_date = d)
     \/ (TrainerAvailabilities[a].is_recurring = 1
         /\ TrainerAvailabilities[a].day_of_week = getDayOfWeek(d))

\* Committed Pending/Confirmed bookings of the trainer that cover instant t of day d.
Covering(trainerId, d, t) ==
  {i \in Committed(trainerBookings) :
     /\ trainerBookings[i].trainer_id = trainerId
     /\ trainerBookings[i].status \in {"Pending", "Confirmed"}
     /\ trainerBookings[i].day = d
     /\ trainerBookings[i].start_time <= t
     /\ t < trainerBookings[i].start_time + trainerBookings[i].duration_minutes}

\* C4: for every Active declaration and every instant of its window, the
\* trainer's Pending or Confirmed bookings that cover the instant number at
\* most the declaration's max_concurrent_bookings.
C4_TrainerCapacity ==
  \A a \in AvailabilityIds, d \in Days :
    Declared(a, d) =>
      \A t \in TrainerAvailabilities[a].start_time..(TrainerAvailabilities[a].end_time - 1) :
        Cardinality(Covering(TrainerAvailabilities[a].trainer_id, d, t))
          <= TrainerAvailabilities[a].max_concurrent_bookings

\* Half-open spans of two bookings overlap.
SpansOverlap(b, c) ==
  /\ b.day = c.day
  /\ b.start_time < c.start_time + c.duration_minutes
  /\ c.start_time < b.start_time + b.duration_minutes

\* C5: no member holds two Pending or Confirmed trainer bookings whose spans overlap.
C5_MemberNoDoubleBooking ==
  \A i, j \in Committed(trainerBookings) :
    (/\ i # j
     /\ trainerBookings[i].member_id = trainerBookings[j].member_id
     /\ trainerBookings[i].status \in {"Pending", "Confirmed"}
     /\ trainerBookings[j].status \in {"Pending", "Confirmed"})
      => ~SpansOverlap(trainerBookings[i], trainerBookings[j])

OwnSettled(s) ==
  /\ tx[s].target \in Committed(trainerBookings)
  /\ trainerBookings[tx[s].target].trainer_id = tx[s].member
  /\ trainerBookings[tx[s].target].status \in {"Confirmed", "Rejected"}

C7_Refused ==
  \A s \in Slots :
    ((LockStep(s, "confirm") \/ LockStep(s, "reject")) /\ OwnSettled(s))
      => (tx'[s].result = "INVALID_STATUS_TRANSITION" /\ trainerBookings' = trainerBookings)

\* C7: Confirm and Reject by the owning trainer on a Confirmed or Rejected
\* booking both fail with the one code INVALID_STATUS_TRANSITION and leave
\* the booking's status and note as they were.
C7_SameKind == [][C7_Refused]_vars

\* Committed Pending/Confirmed bookings r of the trainer, among rows, with
\* r.start < end and r.end > start, on the day of the request.
CompetingIn(rows, c) ==
  {i \in DOMAIN rows :
     /\ rows[i].owner = 0
     /\ rows[i].trainer_id = c.target
     /\ rows[i].status \in {"Pending", "Confirmed"}
     /\ rows[i].day = c.day
     /\ rows[i].start_time < c.start + c.dur
     /\ rows[i].start_time + rows[i].duration_minutes > c.start}

Competing(c) == CompetingIn(trainerBookings, c)

\* Committed Pending/Confirmed bookings of the member, among rows, that
\* overlap the request.
OwnOverlappingIn(rows, c) ==
  {i \in DOMAIN rows :
     /\ rows[i].owner = 0
     /\ rows[i].member_id = c.member
     /\ rows[i].status \in {"Pending", "Confirmed"}
     /\ rows[i].day = c.day
     /\ rows[i].start_time < c.start + c.dur
     /\ rows[i].start_time + rows[i].duration_minutes > c.start}

OwnOverlapping(c) == OwnOverlappingIn(trainerBookings, c)

C9_Step ==
  \A s \in Slots :
    /\ (LockStep(s, "request") /\ AvailSlots(tx[s].target, tx[s].day, tx[s].start, tx[s].dur) # {})
         => LET full == Cardinality(Competing(tx[s]))
                          >= TrainerAvailabilities[tx'[s].slot].max_concurrent_bookings
            IN  /\ tx'[s].slot \in AvailSlots(tx[s].target, tx[s].day, tx[s].start, tx[s].dur)
                /\ (tx'[s].result = "TRAINER_SLOT_FULL") <=> full
                /\ trainerBookings' = trainerBookings
                /\ ~full => (tx'[s].pc = "insert"
                             /\ ReadsCommitted(tx'[s].view.trainer_bookings, trainerBookings))
    /\ (InsertStep(s, "request") /\ OwnOverlappingIn(tx[s].view.trainer_bookings, tx[s]) = {})
         => /\ tx'[s].pc = "commit"
            /\ trainerBookings' = Append(trainerBookings,
                 [trainer_id |-> tx[s].target, member_id |-> tx[s].member,
                  day |-> tx[s].day, start_time |-> tx[s].start,
                  duration_minutes |-> tx[s].dur, status |-> "Pending",
                  note |-> NoNote, owner |-> s])

\* C9: a request that fits a declaration is refused TRAINER_SLOT_FULL exactly
\* when the trainer's Pending/Confirmed bookings r with r.start < end and
\* r.end > start number at least the max_concurrent_bookings of the
\* declaration taken, so a booking that only touches the interval is not
\* counted; a request neither refused so nor in conflict with the member's
\* own bookings, as committed when that count ran, inserts a Pending booking.
C9_HalfOpenCapacity == [][C9_Step]_vars

\* Scenario B: 09:00-09:30 is booked with trainer 1, 09:15-09:45 was refused
\* as full, 09:30-10:00 was granted to the other member against the
\* declaration 09:00-10:00 of max 1.
C9_Witness ==
  \E a, b, c \in Slots :
    /\ tx[a].op = "request" /\ tx[a].result = "ok" /\ tx[a].target = 1
    /\ tx[a].start = 0 /\ tx[a].dur = 2
    /\ trainerBookings[tx[a].bookingId].status = "Pending"
    /\ tx[b].op = "request" /\ tx[b].result = "TRAINER_SLOT_FULL" /\ tx[b].target = 1
    /\ tx[b].start = 1 /\ tx[b].dur = 2
    /\ tx[c].op = "request" /\ tx[c].result = "ok" /\ tx[c].target = 1
    /\ tx[c].start = 2 /\ tx[c].dur = 2 /\ tx[c].slot = 3
    /\ tx[c].member # tx[a].member
    /\ tx[a].bookingId < tx[c].bookingId
    /\ trainerBookings[tx[c].bookingId].status = "Pending"

\* The member's overlapping bookings, among rows, that are with another trainer.
C10_Elsewhere(rows, c) == {i \in OwnOverlappingIn(rows, c) : rows[i].trainer_id # c.target}

C10_Step ==
  \A s \in Slots :
    /\ (/\ LockStep(s, "request")
        /\ AvailSlots(tx[s].target, tx[s].day, tx[s].start, tx[s].dur) # {}
        /\ \A a \in AvailSlots(tx[s].target, tx[s].day, tx[s].start, tx[s].dur) :
             Cardinality(Competing(tx[s])) < TrainerAvailabilities[a].max_concurrent_bookings
        /\ C10_Elsewhere(trainerBookings, tx[s]) # {})
         => /\ tx'[s].pc = "insert" /\ trainerBookings' = trainerBookings
            /\ C10_Elsewhere(tx'[s].view.trainer_bookings, tx[s]) = C10_Elsewhere(trainerBookings, tx[s])
    /\ (InsertStep(s, "request") /\ C10_Elsewhere(tx[s].view.trainer_bookings, tx[s]) # {})
         => (tx'[s].result = "MEMBER_TIME_CONFLICT" /\ trainerBookings' = trainerBookings)

\* C10: a request by a member who, when the lock of the call is granted,
\* holds a Pending or Confirmed booking with another trainer that overlaps
\* the interval, made to a trainer whose declaration contains the interval
\* and has free capacity, has read that booking, keeps what it read, fails
\* MEMBER_TIME_CONFLICT and inserts nothing.
C10_MemberTimeConflict == [][C10_Step /\ ViewKept]_vars

\* Scenario C: the member holds 09:00-09:30 with trainer 1 and was refused
\* 09:15-09:45 with trainer 2.
C10_Witness ==
  \E s \in Slots :
    /\ tx[s].op = "request" /\ tx[s].result = "MEMBER_TIME_CONFLICT"
    /\ tx[s].target = 2 /\ tx[s].start = 1 /\ tx[s].dur = 2
    /\ \E i \in Committed(trainerBookings) :
         /\ trainerBookings[i].member_id = tx[s].member
         /\ trainerBookings[i].trainer_id = 1
         /\ trainerBookings[i].status = "Pending"
         /\ trainerBookings[i].start_time = 0 /\ trainerBookings[i].duration_minutes = 2
    /\ Len(trainerBookings) = 1
\* The codes of the validity window are returned on a bound that is set and
\* passed only, and a refused registration inserts nothing.
C11_OnlyOutside(s, from, until) ==
  /\ (from # NULL /\ from > today) =>
       (tx'[s].result = "SCHEDULE_NOT_YET_AVAILABLE" /\ classBookings' = classBookings)
  /\ tx'[s].result = "SCHEDULE_ENDED" => (until # NULL /\ until < today)
  /\ tx'[s].result = "SCHEDULE_NOT_YET_AVAILABLE" => (from # NULL /\ from > today)

\* The lock of a registration on a schedule of an active class is granted.
C11_Checked(s) ==
  /\ LockStep(s, "register")
  /\ tx[s].target \in ScheduleIds
  /\ Classes[ClassSchedules[tx[s].target].class_id].is_active

C11_AsStated ==
  \A s \in Slots :
    C11_Checked(s)
      => LET from == ClassSchedules[tx[s].target].valid_from
             until == ClassSchedules[tx[s].target].valid_until
         IN  /\ (until # NULL /\ until < today) =>
                  (tx'[s].result = "SCHEDULE_ENDED" /\ classBookings' = classBookings)
             /\ C11_OnlyOutside(s, from, until)

\* C11, as stated: Register on an active class whose schedule has valid_until
\* before today fails SCHEDULE_ENDED, and one with valid_from after today
\* fails SCHEDULE_NOT_YET_AVAILABLE, whatever the capacity and the bookings
\* of the schedule, and inserts nothing; neither failure occurs on a NULL
\* bound.  Schedule 6, past its valid_until and before its valid_from,
\* fails SCHEDULE_NOT_YET_AVAILABLE.
C11_EndedWheneverPast == [][C11_AsStated]_vars

C11_Step ==
  \A s \in Slots :
    C11_Checked(s)
      => LET from == ClassSchedules[tx[s].target].valid_from
             until == ClassSchedules[tx[s].target].valid_until
         IN  /\ (until # NULL /\ until < today /\ ~(from # NULL /\ from > today)) =>
                  (tx'[s].result = "SCHEDULE_ENDED" /\ classBookings' = classBookings)
             /\ C11_OnlyOutside(s, from, until)

\* C11: Register on an active class whose schedule has valid_from after today
\* fails SCHEDULE_NOT_YET_AVAILABLE, and one whose valid_until is before
\* today and whose valid_from is not after today fails SCHEDULE_ENDED,
\* whatever the capacity and the bookings of the schedule, and inserts
\* nothing; neither failure occurs on a NULL bound.
C11_ValidityWindow == [][C11_Step]_vars

\* Scenario D: a schedule that ended yesterday refuses a member although it
\* holds an Active booking made while it was open, and schedule 6 was refused
\* as not yet available on a day past its valid_until.
C11_Witness ==
  \E a, b \in Slots :
    /\ tx[a].op = "register" /\ tx[a].result = "SCHEDULE_ENDED"
    /\ ClassSchedules[tx[a].target].valid_until < today
    /\ ActiveRows(tx[a].target) # {}
    /\ tx[b].op = "register" /\ tx[b].result = "SCHEDULE_NOT_YET_AVAILABLE"
    /\ ClassSchedules[tx[b].target].valid_until < today

\* Quarter hours of a day, and the instant of a time of day on a day.
DayUnits == 24 * 4
Instant(day, time) == day * DayUnits + time

\* A booking of the given day, start and length.
Span(day, start, len) == [day |-> day, start_time |-> start, duration_minutes |-> len]

\* s1 < e2 and s2 < e1 on instants.
HalfOpenOverlap(b, day, start, end) ==
  /\ Instant(b.day, b.start_time) < Instant(day, end)
  /\ Instant(day, start) < Instant(b.day, b.start_time + b.duration_minutes)

\* Every booking of the table against the interval of every request made.
C12_Predicate ==
  \A i \in DOMAIN trainerBookings, s \in Slots :
    tx[s].op = "request" =>
      LET b == trainerBookings[i]
          c == Span(tx[s].day, tx[s].start, tx[s].dur)
      IN  /\ Overlaps(b, c.day, c.start_time, c.start_time + c.duration_minutes)
               = Overlaps(c, b.day, b.start_time, b.start_time + b.duration_minutes)
          /\ Overlaps(b, c.day, c.start_time, c.start_time + c.duration_minutes)
               = HalfOpenOverlap(b, c.day, c.start_time, c.start_time + c.duration_minutes)
          /\ (b.day = c.day /\ (b.start_time + b.duration_minutes = c.start_time
                                \/ c.start_time + c.duration_minutes = b.start_time))
               => ~Overlaps(b, c.day, c.start_time, c.start_time + c.duration_minutes)

C12_Counts ==
  \A s \in Slots :
    tx[s].op = "request" =>
      /\ TrainerConflictCount(trainerBookings, tx[s].target, tx[s].day, tx[s].start,
                              tx[s].start + tx[s].dur, s) =
           Cardinality({i \in Visible(trainerBookings, s) :
              /\ trainerBookings[i].trainer_id = tx[s].target
              /\ trainerBookings[i].status \in {"Pending", "Confirmed"}
              /\ HalfOpenOverlap(trainerBookings[i], tx[s].day, tx[s].start, tx[s].start + tx[s].dur)})
      /\ MemberTimeConflict(trainerBookings, tx[s].member, tx[s].day, tx[s].start,
                            tx[s].start + tx[s].dur, s) =
           Cardinality({i \in Visible(trainerBookings, s) :
              /\ trainerBookings[i].member_id = tx[s].member
              /\ trainerBookings[i].status \in {"Pending", "Confirmed"}
              /\ HalfOpenOverlap(trainerBookings[i], tx[s].day, tx[s].start, tx[s].start + tx[s].dur)})

C12_BrowseCounts ==
  \A d \in Days, a \in AvailabilityIds, o \in PoolConnections :
    LET rows == ReadTrainerBookings(o)
    IN  BookingCount(rows, TrainerAvailabilities[a].trainer_id, d, a) =
          Cardinality({i \in DOMAIN rows :
             /\ rows[i].trainer_id = TrainerAvailabilities[a].trainer_id
             /\ rows[i].status \in {"Pending", "Confirmed"}
             /\ HalfOpenOverlap(rows[i], d, TrainerAvailabilities[a].start_time,
                                TrainerAvailabilities[a].end_time)})

\* C12: the overlap test of trainer bookings is s1 < e2 and s2 < e1, is
\* symmetric in its two intervals and false for intervals that only touch,
\* for every booking and every request within 0..MaxTime on the days; the
\* trainer conflict count, the member conflict count and the count of
\* getTrainerAvailability are the counts of the bookings that pass it.
C12_OverlapPredicate == C12_Predicate /\ C12_Counts /\ C12_BrowseCounts

\* Trainer 1 was browsed with a 09:00-09:30 booking in the table: the
\* declaration 09:30-10:00 came back with no booking counted against it, the
\* declaration 09:00-10:00 of max 1 was full.
C12_Witness ==
  \E s \in Slots :
    /\ tx[s].op = "browse" /\ tx[s].pc = "done" /\ tx[s].target = 1 /\ tx[s].day = 1
    /\ \E r \in tx[s].slots : r.availability_id = 1 /\ r.current_bookings = 0
    /\ \A r \in tx[s].slots : r.availability_id # 3
    /\ Len(trainerBookings) = 1
    /\ trainerBookings[1].trainer_id = 1 /\ trainerBookings[1].start_time = 0
    /\ trainerBookings[1].duration_minutes = 2 /\ trainerBookings[1].owner = 0
\* C13: no call of Register, Cancel, RequestBooking, Confirm or Reject has
\* returned, by commit, by a typed failure, by a failed statement or past a
\* failed rollback, with its transaction still open or a row lock still held.
C13_ClosedOnReturn ==
  \A s \in Slots : tx[s].pc = "done" => (tx[s].leak = "none" /\ HeldLocks(s) = {})

\* C14: a call that failed with a primary error, a typed guard failure or a
\* failed statement, and whose rollback failed too, has thrown the primary
\* error, never the error of the rollback.
C14_PrimaryErrorReturned ==
  \A s \in Slots :
    (tx[s].pc = "done" /\ tx[s].primary # "none") => tx[s].result = tx[s].primary
\* The committed rows of a table, without the mark of the writer.
View(rows) ==
  [i \in Committed(rows) |-> [rows[i] EXCEPT !.owner = 0]]

Returns(s) == tx[s].pc # "done" /\ tx'[s].pc = "done"

\* The call of s returns a failure in this step: the committed rows are the
\* same, and with its transaction closed no row of the call is left.
C15_Failure(s) ==
  /\ View(classBookings') = View(classBookings)
  /\ View(trainerBookings') = View(trainerBookings)
  /\ tx'[s].leak = "none" =>
       /\ \A i \in DOMAIN classBookings' : classBookings'[i].owner # s
       /\ \A i \in DOMAIN trainerBookings' : trainerBookings'[i].owner # s

\* The call of s returns its record in this step: one row is new, or the
\* one targeted row has its new status.
C15_Success(s) ==
  CASE tx[s].op = "register" ->
         /\ View(trainerBookings') = View(trainerBookings)
         /\ tx[s].bookingId \notin Committed(classBookings)
         /\ View(classBookings') =
              (tx[s].bookingId :> [class_schedule_id |-> tx[s].target, member_id |-> tx[s].member,
                                   booking_start_date |-> classBookings[tx[s].bookingId].booking_start_date,
                                   booking_end_date |-> NULL, status |-> "Active", owner |-> 0])
              @@ View(classBookings)
    [] tx[s].op = "request" ->
         /\ View(classBookings') = View(classBookings)
         /\ tx[s].bookingId \notin Committed(trainerBookings)
         /\ View(trainerBookings') =
              (tx[s].bookingId :> [trainer_id |-> tx[s].target, member_id |-> tx[s].member,
                                   day |-> tx[s].day, start_time |-> tx[s].start,
                                   duration_minutes |-> tx[s].dur, status |-> "Pending",
                                   note |-> NoNote, owner |-> 0])
              @@ View(trainerBookings)
    [] tx[s].op = "cancel" ->
         /\ View(trainerBookings') = View(trainerBookings)
         /\ tx[s].target \in Committed(classBookings)
         /\ View(classBookings') =
              [View(classBookings) EXCEPT ![tx[s].target].status = "Canceled",
                                          ![tx[s].target].booking_end_date = tx[s].day]
    [] tx[s].op = "confirm" ->
         /\ View(classBookings') = View(classBookings)
         /\ tx[s].target \in Committed(trainerBookings)
         /\ View(trainerBookings') =
              [View(trainerBookings) EXCEPT ![tx[s].target].status = "Confirmed"]
    [] tx[s].op = "reject" ->
         /\ View(classBookings') = View(classBookings)
         /\ tx[s].target \in Committed(trainerBookings)
         /\ View(trainerBookings') =
              [View(trainerBookings) EXCEPT ![tx[s].target].status = "Rejected",
                                            ![tx[s].target].note = RejectionNote(tx[s].reason)]
    [] OTHER -> FALSE

C15_Step ==
  /\ \A s \in Slots :
       Returns(s) => IF tx'[s].result = "ok" THEN C15_Success(s) ELSE C15_Failure(s)
  /\ (View(classBookings') # View(classBookings) \/ View(trainerBookings') # View(trainerBookings))
       => \E s \in Slots : Returns(s) /\ tx'[s].result = "ok"

\* C15: a call that fails, with a typed error or because a statement failed
\* at any step (a lock-wait timeout included), leaves the committed bookings
\* as they were: none inserted, no status, end date or note changed; a call
\* that succeeds changes one row, the one it inserts or the one it targets;
\* nothing else changes a committed booking.  The schedules and the
\* declarations are read only.
C15_FrameEffect == [][C15_Step]_vars

C16_Step ==
  \A s \in Slots :
    (tx[s].pc = "idle" /\ tx'[s].op = "request")
      => LET illFormed == \/ tx'[s].day = InvalidDate
                          \/ tx'[s].day < today
                          \/ (tx'[s].day = today /\ tx'[s].start < clock)
                          \/ tx'[s].dur <= 0
                          \/ tx'[s].frac # 0
         IN  IF illFormed
             THEN /\ tx'[s].pc = "done"
                  /\ tx'[s].result \in {"BOOKING_IN_PAST", "INVALID_DATE_FORMAT", "INVALID_DURATION"}
                  /\ tx'[s].bookingId = 0
                  /\ HeldLocks(s)' = {}
                  /\ trainerBookings' = trainerBookings
                  /\ \A o \in Slots \ {s} : tx'[o] = tx[o]
             ELSE tx'[s].pc = "begin"

\* C16: a RequestBooking whose duration is not a positive integer, whose start
\* is in the past or whose start time does not parse returns its error in the
\* step it arrives: it takes no connection, never waits for or holds a lock
\* on a declaration, and it writes no booking.
C16_ValidatedBeforeTransaction == [][C16_Step]_vars

\* A request with a fractional duration, one with an unparseable start and
\* one for a time of today that has passed were refused.
C16_Witness ==
  \E a, b, c \in Slots :
    /\ tx[a].result = "INVALID_DURATION" /\ tx[a].frac # 0 /\ tx[a].dur > 0
    /\ tx[b].result = "INVALID_DATE_FORMAT" /\ tx[b].day = InvalidDate
    /\ tx[c].result = "BOOKING_IN_PAST" /\ tx[c].day = today /\ tx[c].start < clock
    /\ trainerBookings = <<>>
\* The registrations on the schedule of s that succeeded before s took the lock.
PriorSuccessful(s) ==
  {o \in Slots \ {s} : /\ tx[o].op = "register" /\ tx[o].target = tx[s].target
                       /\ tx[o].pc = "done" /\ tx[o].result = "ok"}

\* The registration of s, under its lock, passes its capacity check.
Succeeds(s) == InsertStep(s, "register") /\ tx'[s].pc = "commit"

\* C17 as stated: the Nth successful registration on a schedule counts, under
\* its lock, exactly N-1 Active bookings, in every interleaving of Register
\* and Cancel.
C17_SeesAllPrior ==
  [][\A s \in Slots :
       Succeeds(s) =>
         ActiveCount(tx[s].view.class_bookings, tx[s].target, s) = Cardinality(PriorSuccessful(s))]_vars

\* Registrations on one schedule hold its lock one at a time.
C17_OneAtATime ==
  \A s, o \in Slots :
    (/\ s # o /\ tx[s].op = "register" /\ tx[o].op = "register"
     /\ UnderLock(s) /\ UnderLock(o)) => tx[s].target # tx[o].target

C17_Step ==
  \A s \in Slots :
    /\ (CheckStep(s) /\ tx'[s].pc = "insert") => ReadsCommitted(tx'[s].view.class_bookings, classBookings)
    /\ Succeeds(s) =>
         ActiveCount(tx[s].view.class_bookings, tx[s].target, s) =
           Cardinality({o \in PriorSuccessful(s) :
                          /\ tx[o].bookingId \in DOMAIN tx[s].view.class_bookings
                          /\ tx[s].view.class_bookings[tx[o].bookingId].status = "Active"})

\* C17, amended: registrations on one schedule hold its lock one at a time,
\* and the Nth successful one counts, under its lock, exactly those of the
\* N-1 earlier successful registrations whose booking had not been canceled
\* when its duplicate check read the committed bookings.
C17_SeesPriorNotCanceled == [](C17_OneAtATime) /\ [][C17_Step /\ ViewKept]_vars

\* Two registrations succeeded on the schedule of capacity 1: the second one
\* counted no Active booking, the first had been canceled.
C17_Witness ==
  \E a, b \in Slots :
    /\ a # b
    /\ tx[a].op = "register" /\ tx[a].result = "ok" /\ tx[a].target = 1
    /\ tx[b].op = "register" /\ tx[b].result = "ok" /\ tx[b].target = 1
    /\ tx[a].bookingId < tx[b].bookingId
    /\ classBookings[tx[a].bookingId].status = "Canceled"
    /\ classBookings[tx[b].bookingId].status = "Active"
\* C18: a registration that waits for its locking read is never held up by a
\* registration on another schedule that holds its lock, also when the two
\* schedules are of the same class.
C18_NoCrossBlocking ==
  \A s, o \in Slots :
    (/\ s # o
     /\ tx[s].op = "register" /\ tx[s].pc = "wait"
     /\ tx[o].op = "register" /\ UnderLock(o)
     /\ tx[s].target # tx[o].target)
      => HeldLocks(o) \cap LockKeys(s) = {}
C19_Guards ==
  \A s \in Slots :
    LockStep(s, "cancel") =>
      IF tx[s].target \notin DOMAIN classBookings
      THEN tx'[s].result = "BOOKING_NOT_FOUND" /\ classBookings' = classBookings
      ELSE IF classBookings[tx[s].target].member_id # tx[s].member
      THEN tx'[s].result = "UNAUTHORIZED" /\ classBookings' = classBookings
      ELSE classBookings[tx[s].target].status = "Active" =>
             (tx'[s].pc = "commit" /\ tx'[s].day = today)

C19_Update ==
  \A s \in Slots :
    (tx[s].op = "cancel" /\ tx[s].pc = "commit" /\ tx'[s].pc = "done")
      => /\ tx'[s].result = "ok"
         /\ classBookings' = [classBookings EXCEPT ![tx[s].target].status = "Canceled",
                                                   ![tx[s].target].booking_end_date = tx[s].day]

\* C19: a Cancel by a caller who is not the member of the booking fails
\* UNAUTHORIZED and changes nothing, whatever the status of the booking; a
\* Cancel of an id without a row fails BOOKING_NOT_FOUND; a Cancel by the
\* member on an Active booking sets its status Canceled and its end date
\* today, the day the call read once its lock was granted and its guards
\* had passed.
C19_OnlyOwnerCancels == [][C19_Guards /\ C19_Update]_vars

\* A member was refused UNAUTHORIZED on a booking of another member that its
\* owner had already canceled.
C19_Witness ==
  \E a, b \in Slots :
    /\ tx[a].op = "cancel" /\ tx[a].result = "UNAUTHORIZED"
    /\ tx[a].target \in DOMAIN classBookings
    /\ classBookings[tx[a].target].status = "Canceled"
    /\ classBookings[tx[a].target].member_id # tx[a].member
    /\ tx[b].op = "cancel" /\ tx[b].result = "ok" /\ tx[b].target = tx[a].target
C20_Guards ==
  \A s \in Slots :
    (LockStep(s, "confirm") \/ LockStep(s, "reject")) =>
      IF tx[s].target \notin DOMAIN trainerBookings
      THEN tx'[s].result = "BOOKING_NOT_FOUND" /\ trainerBookings' = trainerBookings
      ELSE IF trainerBookings[tx[s].target].trainer_id # tx[s].member
      THEN tx'[s].result = "UNAUTHORIZED" /\ trainerBookings' = trainerBookings
      ELSE trainerBookings[tx[s].target].status = "Pending" => tx'[s].pc = "commit"

C20_Update ==
  \A s \in Slots :
    (tx[s].op \in {"confirm", "reject"} /\ tx[s].pc = "commit" /\ tx'[s].pc = "done")
      => /\ tx'[s].result = "ok"
         /\ trainerBookings' =
              IF tx[s].op = "confirm"
              THEN [trainerBookings EXCEPT ![tx[s].target].status = "Confirmed"]
              ELSE [trainerBookings EXCEPT
                      ![tx[s].target].status = "Rejected",
                      ![tx[s].target].note =
                         IF tx[s].reason \in {"NULL", ""} THEN NoNote
                         ELSE <<"Rejection reason: ", tx[s].reason>>]

\* C20: Confirm or Reject with a trainer id other than the booking's fails
\* UNAUTHORIZED and changes nothing, whatever the status of the booking; on
\* an id without a row both fail BOOKING_NOT_FOUND; by the booking's trainer
\* on a Pending booking Confirm sets status Confirmed, Reject sets status
\* Rejected and writes the reason, when one is given, into the note.
C20_OnlyOwningTrainerDecides == [][C20_Guards /\ C20_Update]_vars

\* The booking was rejected with a reason by its trainer, and the other
\* trainer was then refused UNAUTHORIZED on it.
C20_Witness ==
  \E a, b \in Slots :
    /\ tx[a].op = "reject" /\ tx[a].result = "ok" /\ tx[a].reason = "busy"
    /\ trainerBookings[tx[a].target].status = "Rejected"
    /\ trainerBookings[tx[a].target].note = <<"Rejection reason: ", "busy">>
    /\ tx[b].op \in {"confirm", "reject"} /\ tx[b].result = "UNAUTHORIZED"
    /\ tx[b].target = tx[a].target /\ a < b
\* Some one Active declaration of the trainer for the day holds the whole
\* interval of the call.
FitsOneWindow(c) ==
  \E a \in AvailabilityIds :
    /\ TrainerAvailabilities[a].trainer_id = c.target
    /\ Declared(a, c.day)
    /\ TrainerAvailabilities[a].start_time <= c.start
    /\ c.start + c.dur <= TrainerAvailabilities[a].end_time

C21_Step ==
  \A s \in Slots :
    LockStep(s, "request") =>
      /\ ~FitsOneWindow(tx[s]) =>
           (tx'[s].result = "NO_AVAILABILITY_SLOT" /\ trainerBookings' = trainerBookings)
      /\ tx'[s].result = "NO_AVAILABILITY_SLOT" => ~FitsOneWindow(tx[s])
      /\ tx'[s].pc = "insert" => FitsOneWindow(tx[s])

\* C21: a RequestBooking goes on to insert only if one Active declaration of
\* the trainer for the date has start_time <= start and start + duration <=
\* end_time; a request that overlaps a window in part, or that only the union
\* of two adjacent windows covers, fails NO_AVAILABILITY_SLOT and inserts
\* nothing.
C21_FitsOneWindow ==
  [][C21_Step /\ \A s \in Slots : InsertStep(s, "request") => FitsOneWindow(tx[s])]_vars

\* 09:15-09:45 and 09:00-10:00 were refused on the trainer with windows
\* 09:00-09:30 and 09:30-10:00, and 09:00-09:30 was booked.
C21_Witness ==
  \E a, b, c \in Slots :
    /\ tx[a].op = "request" /\ tx[a].target = 3 /\ tx[a].day = 1
    /\ tx[a].start = 1 /\ tx[a].dur = 2 /\ tx[a].result = "NO_AVAILABILITY_SLOT"
    /\ tx[b].op = "request" /\ tx[b].target = 3 /\ tx[b].day = 1
    /\ tx[b].start = 0 /\ tx[b].dur = 4 /\ tx[b].result = "NO_AVAILABILITY_SLOT"
    /\ tx[c].op = "request" /\ tx[c].target = 3 /\ tx[c].day = 1
    /\ tx[c].start = 0 /\ tx[c].dur = 2 /\ tx[c].result = "ok"
    /\ Len(trainerBookings) = 1
\* The Active declarations of the trainer that match the day.
Matching(trainerId, d) ==
  {a \in AvailabilityIds : TrainerAvailabilities[a].trainer_id = trainerId /\ Declared(a, d)}

\* Committed Pending/Confirmed bookings of the trainer overlapping the window
\* of declaration a on day d.
WindowCount(a, d) ==
  Cardinality({i \in Committed(trainerBookings) :
     /\ trainerBookings[i].trainer_id = TrainerAvailabilities[a].trainer_id
     /\ trainerBookings[i].status \in {"Pending", "Confirmed"}
     /\ HalfOpenOverlap(trainerBookings[i], d, TrainerAvailabilities[a].start_time,
                        TrainerAvailabilities[a].end_time)})

Remaining(a, d) ==
  IF TrainerAvailabilities[a].max_concurrent_bookings > WindowCount(a, d)
  THEN TrainerAvailabilities[a].max_concurrent_bookings - WindowCount(a, d)
  ELSE 0

\* A step of a Browse: every entry it computes carries the count of the
\* moment and the remaining spots that follow from it; the list it returns is
\* in ascending start_time order, and, when no count it took earlier has
\* changed since, holds exactly the matching declarations with spots remaining.
C22_Step ==
  \A s \in Slots :
    (/\ \/ (tx[s].pc = "idle" /\ tx'[s].op = "browse")
        \/ (tx[s].op = "browse" /\ tx[s].pc = "count" /\ tx'[s] # tx[s])
     /\ tx'[s].result # "DATABASE_ERROR") =>
      LET c == tx'[s]
          shown == {a \in Matching(c.target, c.day) : Remaining(a, c.day) > 0}
          fresh == \A r \in tx[s].slots : r.current_bookings = WindowCount(r.availability_id, c.day)
      IN  /\ \A r \in c.slots \ tx[s].slots :
               /\ r.current_bookings = WindowCount(r.availability_id, c.day)
               /\ r.remaining_spots = Remaining(r.availability_id, c.day)
               /\ r.is_available = (r.remaining_spots > 0)
          /\ c.pc = "done" =>
               /\ c.result = "ok"
               /\ \A i, j \in 1..Len(c.list) :
                    i < j => (c.list[i].start_time <= c.list[j].start_time
                              /\ c.list[i].availability_id # c.list[j].availability_id)
               /\ \A i \in 1..Len(c.list) :
                    /\ c.list[i].availability_id \in Matching(c.target, c.day)
                    /\ c.list[i].start_time = TrainerAvailabilities[c.list[i].availability_id].start_time
                    /\ c.list[i].is_available
                    /\ c.list[i].remaining_spots > 0
                    /\ c.list[i].remaining_spots =
                         c.list[i].max_concurrent_bookings - c.list[i].current_bookings
               /\ fresh =>
                    /\ {c.list[i].availability_id : i \in 1..Len(c.list)} = shown
                    /\ \A i \in 1..Len(c.list) :
                         c.list[i].remaining_spots = Remaining(c.list[i].availability_id, c.day)

\* No entry a Browse holds or returns has negative remaining spots.
C22_NeverNegative ==
  \A s \in Slots :
    /\ \A r \in tx[s].slots : r.remaining_spots >= 0
    /\ \A i \in 1..Len(tx[s].list) : tx[s].list[i].remaining_spots >= 0

\* C22: getTrainerAvailability returns exactly the Active declarations of the
\* trainer matching the date whose remaining spots, max(max_concurrent_bookings
\* - count of the trainer's Pending/Confirmed bookings overlapping the window,
\* 0), are above 0, in ascending start_time order, each with that remaining
\* value and is_available true; remaining spots are never negative.
C22_BrowseResult == [](C22_NeverNegative) /\ [][C22_Step]_vars

\* s takes a step of a browse: it arrives, or one of its count statements
\* runs or rejects.
BrowseStep(s) ==
  \/ (tx[s].pc = "idle" /\ tx'[s].op \in {"browse", "classes"})
  \/ (tx[s].op = "browse" /\ tx[s].pc \in {"count", "done"} /\ tx'[s] # tx[s])

\* A step of a browse changes no row and no lock, and leaves no transaction
\* of its own.
C23_Step ==
  \A s \in Slots :
    BrowseStep(s) =>
      /\ trainerBookings' = trainerBookings
      /\ classBookings' = classBookings
      /\ \A o \in Slots : HeldLocks(o)' = HeldLocks(o)
      /\ tx'[s].pc # "commit" /\ tx'[s].leak = "none"

\* No write has been committed: the committed rows are the two the tables
\* started with.
C23_NoCommittedWrite ==
  /\ Committed(trainerBookings) = {1} /\ trainerBookings[1] = PoolBooking
  /\ Committed(classBookings) = {1} /\ classBookings[1] = PoolRegistration

\* While no write has been committed, whatever is in flight, browses of the
\* same arguments have returned the same lists.
C23_SameResult ==
  C23_NoCommittedWrite =>
    \A a, b \in Slots :
      (tx[a].pc = "done" /\ tx[b].pc = "done" /\ tx[a].op = tx[b].op
         /\ tx[a].op \in {"browse", "classes"}
         /\ tx[a].result = "ok" /\ tx[b].result = "ok"
         /\ tx[a].target = tx[b].target /\ tx[a].day = tx[b].day) =>
        (tx[a].list = tx[b].list /\ tx[a].classes = tx[b].classes)

\* C23: two calls of getTrainerAvailability, or of getAvailableClasses, with
\* the same arguments and no committed write between them return identical
\* results, and a call changes no booking row.
C23_BrowseIdempotent == [](C23_SameResult) /\ [][C23_Step]_vars

\* The INSERT of a call: one row appended with the values of the call, not
\* yet committed; the other table is left alone.
C24_Insert ==
  \A s \in Slots :
    /\ (LockStep(s, "register") /\ tx'[s].pc = "check") => tx'[s].day = today
    /\ (tx[s].op = "register" /\ UnderLock(s)) => tx'[s].day = tx[s].day
    /\ (InsertStep(s, "register") /\ tx'[s].pc = "commit") =>
         /\ classBookings' = Append(classBookings,
              [class_schedule_id |-> tx[s].target, member_id |-> tx[s].member,
               booking_start_date |-> tx[s].day, booking_end_date |-> NULL,
               status |-> "Active", owner |-> s])
         /\ trainerBookings' = trainerBookings
    /\ (InsertStep(s, "request") /\ tx'[s].pc = "commit") =>
         /\ trainerBookings' = Append(trainerBookings,
              [trainer_id |-> tx[s].target, member_id |-> tx[s].member, day |-> tx[s].day,
               start_time |-> tx[s].start, duration_minutes |-> tx[s].dur,
               status |-> "Pending", note |-> NoNote, owner |-> s])
         /\ classBookings' = classBookings

\* The return of a successful call: the one row its transaction inserted is
\* committed as inserted and the record returned carries its id and values.
C24_Return ==
  \A s \in Slots :
    (tx[s].pc = "commit" /\ tx'[s].pc = "done" /\ tx'[s].result = "ok") =>
      /\ tx[s].op = "register" =>
           LET r == RegisterResponse(tx'[s])
           IN  /\ {i \in DOMAIN classBookings : classBookings[i].owner = s} = {r.booking_id}
               /\ {i \in DOMAIN trainerBookings : trainerBookings[i].owner = s} = {}
               /\ Len(classBookings') = Len(classBookings)
               /\ classBookings'[r.booking_id] =
                    [class_schedule_id |-> r.class_schedule_id, member_id |-> r.member_id,
                     booking_start_date |-> r.booking_start_date,
                     booking_end_date |-> r.booking_end_date, status |-> r.status, owner |-> 0]
               /\ r.status = "Active" /\ r.booking_end_date = NULL
               /\ r.member_id = tx[s].member /\ r.class_schedule_id = tx[s].target
      /\ tx[s].op = "request" =>
           LET r == RequestResponse(tx'[s])
           IN  /\ {i \in DOMAIN trainerBookings : trainerBookings[i].owner = s} = {r.booking_id}
               /\ {i \in DOMAIN classBookings : classBookings[i].owner = s} = {}
               /\ Len(trainerBookings') = Len(trainerBookings)
               /\ trainerBookings'[r.booking_id] =
                    [trainer_id |-> r.trainer_id, member_id |-> r.member_id,
                     day |-> r.start_time[1], start_time |-> r.start_time[2],
                     duration_minutes |-> r.duration_minutes, status |-> r.status,
                     note |-> NoNote, owner |-> 0]
               /\ r.status = "Pending"
               /\ r.member_id = tx[s].member /\ r.trainer_id = tx[s].target
               /\ r.start_time = <<tx[s].day, tx[s].start>> /\ r.duration_minutes = tx[s].dur

\* C24: a successful registerForClass inserts exactly one class booking for
\* the member and the schedule with status Active, booking_start_date today,
\* the day the call read once its lock was granted, and booking_end_date NULL; a successful requestTrainerBooking inserts
\* exactly one trainer booking for the member, trainer, start and duration
\* with status Pending; the record returned echoes those values and the id of
\* the inserted row.
C24_InsertsOneRow == [][C24_Insert /\ C24_Return]_vars

\* A registration made on day 2 and a request made on day 1 both returned.
C24_Witness ==
  \E a, b \in Slots :
    /\ tx[a].op = "register" /\ tx[a].pc = "done" /\ tx[a].result = "ok"
    /\ RegisterResponse(tx[a]).booking_start_date = 2
    /\ classBookings[RegisterResponse(tx[a]).booking_id].owner = 0
    /\ tx[b].op = "request" /\ tx[b].pc = "done" /\ tx[b].result = "ok"
    /\ trainerBookings[RequestResponse(tx[b]).booking_id].status = "Pending"
    /\ Len(classBookings) = 1 /\ Len(trainerBookings) = 1
\* The guards of a registration of member m for schedule sid as caller s
\* meets them, each on its own.
C25_Fails(guard, sid, m, rows, s) ==
  CASE guard = "SCHEDULE_NOT_FOUND" -> sid \notin ScheduleIds
    [] guard = "CLASS_INACTIVE" -> ~Classes[ClassSchedules[sid].class_id].is_active
    [] guard = "SCHEDULE_NOT_YET_AVAILABLE" ->
         ClassSchedules[sid].valid_from # NULL /\ today < ClassSchedules[sid].valid_from
    [] guard = "SCHEDULE_ENDED" ->
         ClassSchedules[sid].valid_until # NULL /\ today > ClassSchedules[sid].valid_until
    [] guard = "ALREADY_REGISTERED" ->
         \E i \in DOMAIN rows :
           /\ rows[i].owner \in {0, s}
           /\ rows[i].class_schedule_id = sid
           /\ rows[i].member_id = m
           /\ rows[i].status = "Active"
    [] guard = "CLASS_FULL" ->
         Cardinality({i \in DOMAIN rows :
            /\ rows[i].owner \in {0, s}
            /\ rows[i].class_schedule_id = sid /\ rows[i].status = "Active"})
           >= ClassSchedules[sid].capacity

C25_Order ==
  <<"SCHEDULE_NOT_FOUND", "CLASS_INACTIVE", "SCHEDULE_NOT_YET_AVAILABLE",
    "SCHEDULE_ENDED", "ALREADY_REGISTERED", "CLASS_FULL">>

\* The first guard of the order, from guard number from on, that fails on
\* the rows read, 0 when none does.  A schedule that is not found has nothing
\* further to test.
C25_First(from, sid, m, rows, s) ==
  IF sid \notin ScheduleIds THEN 1
  ELSE IF \E k \in from..6 : C25_Fails(C25_Order[k], sid, m, rows, s)
       THEN CHOOSE k \in from..6 :
              /\ C25_Fails(C25_Order[k], sid, m, rows, s)
              /\ \A j \in from..(k - 1) : ~C25_Fails(C25_Order[j], sid, m, rows, s)
       ELSE 0

\* The call is refused with guard number k of the order and writes nothing.
C25_Refused(s, k) ==
  tx'[s].pc = "done" /\ tx'[s].result = C25_Order[k] /\ classBookings' = classBookings

\* Granted its lock, the call tests the guards on the schedule; its duplicate
\* check then reads the committed bookings, and its count what that read saw.
C25_Step ==
  \A s \in Slots :
    /\ LockStep(s, "register") =>
         LET k == C25_First(1, tx[s].target, tx[s].member, classBookings, s)
         IN  IF k \in 1..4 THEN C25_Refused(s, k) ELSE tx'[s].pc = "check"
    /\ CheckStep(s) =>
         LET k == C25_First(5, tx[s].target, tx[s].member, classBookings, s)
         IN  IF k = 5 THEN C25_Refused(s, 5)
             ELSE tx'[s].pc = "insert" /\ ReadsCommitted(tx'[s].view.class_bookings, classBookings)
    /\ InsertStep(s, "register") =>
         LET k == C25_First(6, tx[s].target, tx[s].member, tx[s].view.class_bookings, s)
         IN  IF k = 6 THEN C25_Refused(s, 6) ELSE tx'[s].pc = "commit"

\* C25: registerForClass tests its guards in the order SCHEDULE_NOT_FOUND,
\* CLASS_INACTIVE, SCHEDULE_NOT_YET_AVAILABLE, SCHEDULE_ENDED,
\* ALREADY_REGISTERED, CLASS_FULL and reports the first that fails.
C25_GuardOrder == [][C25_Step /\ ViewKept]_vars

\* A member already registered in a full class was told ALREADY_REGISTERED,
\* and the retired class whose schedule had ended was reported CLASS_INACTIVE.
C25_Witness ==
  \E a, b, c \in Slots :
    /\ tx[a].op = "register" /\ tx[a].target = 1 /\ tx[a].result = "ok"
    /\ tx[b].op = "register" /\ tx[b].target = 1 /\ tx[b].member = tx[a].member
    /\ tx[b].result = "ALREADY_REGISTERED"
    /\ Cardinality(ActiveRows(1)) = ClassSchedules[1].capacity
    /\ tx[c].op = "register" /\ tx[c].target = 5 /\ tx[c].result = "CLASS_INACTIVE"
    /\ today > ClassSchedules[5].valid_until
\* s is a Confirm or a Reject, by the trainer of the booking, that found the
\* booking and has returned.
Decided(s) ==
  /\ tx[s].op \in {"confirm", "reject"} /\ tx[s].pc = "done"
  /\ tx[s].target \in Committed(trainerBookings)
  /\ tx[s].member = trainerBookings[tx[s].target].trainer_id
  /\ tx[s].result # "BOOKING_NOT_FOUND"

StatusSetBy(s) == IF tx[s].op = "confirm" THEN "Confirmed" ELSE "Rejected"

\* Of two decisions on one booking, w won and l lost with the given code.
C26_WonLost(w, l, code) ==
  /\ tx[w].result = "ok" /\ tx[l].result = code
  /\ trainerBookings[tx[w].target].status = StatusSetBy(w)

\* C26: of a Confirm and a Reject, two Confirms or two Rejects by the owning
\* trainer on the same Pending booking, exactly one succeeds and the other
\* fails INVALID_STATUS_TRANSITION; the status is the one the winner set.
C26_OneWinner ==
  \A a, b \in Slots :
    (a # b /\ Decided(a) /\ Decided(b) /\ tx[a].target = tx[b].target) =>
      \/ C26_WonLost(a, b, "INVALID_STATUS_TRANSITION")
      \/ C26_WonLost(b, a, "INVALID_STATUS_TRANSITION")

\* The same race with the code each operation throws on a settled booking.
C26_RaceDecided ==
  \A a, b \in Slots :
    (a # b /\ Decided(a) /\ Decided(b) /\ tx[a].target = tx[b].target) =>
      \/ C26_WonLost(a, b, IF tx[b].op = "confirm" THEN "INVALID_STATUS"
                           ELSE "INVALID_STATUS_TRANSITION")
      \/ C26_WonLost(b, a, IF tx[a].op = "confirm" THEN "INVALID_STATUS"
                           ELSE "INVALID_STATUS_TRANSITION")
\* s is a Cancel, by the member of the booking, that found the booking and
\* has returned.
CancelDecided(s) ==
  /\ tx[s].op = "cancel" /\ tx[s].pc = "done"
  /\ tx[s].target \in Committed(classBookings)
  /\ tx[s].member = classBookings[tx[s].target].member_id
  /\ tx[s].result # "BOOKING_NOT_FOUND"

\* Of the Cancels of a booking that have returned, one has its record and
\* every other was refused ALREADY_CANCELED; the booking is Canceled.
C27_Outcome ==
  \A i \in Committed(classBookings) :
    LET returned == {s \in Slots : CancelDecided(s) /\ tx[s].target = i}
    IN  returned # {} =>
          /\ \E w \in returned :
               /\ tx[w].result = "ok"
               /\ \A l \in returned \ {w} : tx[l].result = "ALREADY_CANCELED"
          /\ classBookings[i].status = "Canceled"
          /\ classBookings[i].booking_end_date # NULL

\* The end date of a booking is written in the step in which a Cancel of it
\* returns its record, on a booking that was Active, and is the day that
\* Cancel read under its lock.
C27_EndDate ==
  /\ \A s \in Slots :
       (LockStep(s, "cancel") /\ tx'[s].pc = "commit") => tx'[s].day = today
  /\ \A i \in DOMAIN classBookings :
       classBookings'[i].booking_end_date # classBookings[i].booking_end_date =>
         /\ classBookings[i].status = "Active" /\ classBookings[i].booking_end_date = NULL
         /\ \E s \in Slots :
              /\ tx[s].op = "cancel" /\ tx[s].target = i
              /\ tx[s].pc = "commit" /\ tx'[s].pc = "done" /\ tx'[s].result = "ok"
              /\ classBookings'[i].booking_end_date = tx[s].day

\* C27: of two Cancels by the member on the same Active class booking,
\* exactly one succeeds and the other fails ALREADY_CANCELED; the booking
\* ends Canceled with the end date the one winner wrote.
C27_OneCancelWins == [](C27_Outcome) /\ [][C27_EndDate]_vars

\* Two Cancels of a booking made on day 1 returned, one of them with its
\* record; the booking ends on day 2.
C27_Witness ==
  \E a, b \in Slots :
    /\ a # b /\ CancelDecided(a) /\ CancelDecided(b) /\ tx[a].target = tx[b].target
    /\ tx[a].result = "ok" /\ tx[b].result = "ALREADY_CANCELED"
    /\ classBookings[tx[a].target].booking_start_date = 1
    /\ classBookings[tx[a].target].booking_end_date = 2
\* A browse can take its next step now.
C29_Enabled ==
  \A s \in ThreeCalls :
    /\ Arrives(s) =>
         (ENABLED BrowseBegin(s, {1, 3}, Days) /\ ENABLED ClassesBrowse(s, Days))
    /\ (tx[s].op = "browse" /\ tx[s].pc = "count") => ENABLED BrowseCount(s)

\* No transaction left open reads from a view older than the committed rows.
C29_ViewsCurrent == \A o \in LeftOpen : tx[o].view \in {NoView, OpenView}

\* A step of a browse takes no row lock, leaves the locks of the others as
\* they are, and, where no view is older than the committed rows, counts
\* committed bookings only.
C29_Step ==
  \A s \in ThreeCalls :
    (BrowseStep(s) /\ C29_ViewsCurrent) =>
      /\ HeldLocks(s)' = {}
      /\ \A o \in Slots \ {s} : HeldLocks(o)' = HeldLocks(o)
      /\ \A r \in (IF tx[s].pc = "count" THEN tx'[s].slots \ tx[s].slots ELSE {}) :
           r.current_bookings =
             Cardinality({i \in DOMAIN trainerBookings :
                /\ trainerBookings[i].owner = 0
                /\ trainerBookings[i].trainer_id = r.trainer_id
                /\ trainerBookings[i].status \in {"Pending", "Confirmed"}
                /\ HalfOpenOverlap(trainerBookings[i], r.date, r.start_time, r.end_time)})
      /\ \A k \in 1..Len(tx'[s].classes) :
           tx'[s].classes[k].booked_count =
             Cardinality({i \in DOMAIN classBookings :
                /\ classBookings[i].owner = 0
                /\ classBookings[i].class_schedule_id = tx'[s].classes[k].schedule_id
                /\ classBookings[i].status = "Active"
                /\ classBookings[i].booking_start_date <= tx'[s].day
                /\ classBookings[i].booking_end_date \in {NULL} \cup (tx'[s].day..MaxDay)})

\* C29: getTrainerAvailability and getAvailableClasses take no row lock and
\* wait for none: each of their steps can be taken in every state, also while
\* a registration or a request holds the rows of what is browsed, and they
\* count committed bookings only.
C29_BrowseNeverBlocked == [](C29_Enabled) /\ [][C29_Step]_vars

\* No write is in flight: no call holds a lock or an uncommitted row, and no
\* transaction was left open on a connection of the pool.
NoWriteInFlight ==
  /\ \A o \in Slots : ~UnderLock(o)
  /\ LeftOpen = {}
  /\ \A i \in DOMAIN trainerBookings : trainerBookings[i].owner \in {0, RolledBack}

\* getTrainerAvailability, called now with its statements on connection o,
\* would return declaration a for the day.
BrowseReturns(o, a, d) ==
  SlotWithCapacity(ReadTrainerBookings(o), TrainerAvailabilities[a].trainer_id, d, a).is_available

\* The request of the call lies inside the window of declaration a.
InsideWindow(c, a) ==
  /\ TrainerAvailabilities[a].trainer_id = c.target
  /\ Declared(a, c.day)
  /\ TrainerAvailabilities[a].start_time <= c.start
  /\ c.start + c.dur <= TrainerAvailabilities[a].end_time

\* The capacity check of the request of s runs and passes.
C30_Passes(s) ==
  /\ LockStep(s, "request") /\ tx'[s].primary = "none"
  /\ tx'[s].result \notin {"NO_AVAILABILITY_SLOT", "TRAINER_SLOT_FULL"}

C30_WindowIsInterval(c, a) ==
  \A i \in Committed(trainerBookings) :
    (/\ trainerBookings[i].trainer_id = c.target
     /\ trainerBookings[i].status \in {"Pending", "Confirmed"}
     /\ HalfOpenOverlap(trainerBookings[i], c.day, TrainerAvailabilities[a].start_time,
                        TrainerAvailabilities[a].end_time))
      => HalfOpenOverlap(trainerBookings[i], c.day, c.start, c.start + c.dur)

Bookable(sid) ==
  /\ sid \in ScheduleIds
  /\ Classes[ClassSchedules[sid].class_id].is_active
  /\ (ClassSchedules[sid].valid_from = NULL \/ ClassSchedules[sid].valid_from <= today)
  /\ (ClassSchedules[sid].valid_until = NULL \/ ClassSchedules[sid].valid_until >= today)

\* The committed bookings of the schedule, among rows, that are not Canceled.
NotCanceled(rows, sid) ==
  {i \in DOMAIN rows :
     rows[i].owner = 0 /\ rows[i].class_schedule_id = sid /\ rows[i].status # "Canceled"}

\* A registration on a bookable schedule goes on to its duplicate check; it
\* passes that exactly when none of the committed bookings that are not
\* Canceled is the member's, and is then granted exactly when those bookings
\* leave a seat.
C31_Step ==
  \A s \in Slots :
    /\ (LockStep(s, "register") /\ Bookable(tx[s].target)) => tx'[s].pc = "check"
    /\ CheckStep(s) =>
         /\ (tx'[s].pc = "insert") <=>
              \A i \in NotCanceled(classBookings, tx[s].target) :
                classBookings[i].member_id # tx[s].member
         /\ tx'[s].pc = "insert" => ReadsCommitted(tx'[s].view.class_bookings, classBookings)
    /\ InsertStep(s, "register") =>
         ((tx'[s].pc = "commit") <=>
            Cardinality(NotCanceled(tx[s].view.class_bookings, tx[s].target))
              < ClassSchedules[tx[s].target].capacity)

C33_EndDates ==
  \A i \in DOMAIN classBookings :
    /\ (classBookings[i].booking_end_date = NULL) <=> (classBookings[i].status = "Active")
    /\ classBookings[i].status = "Canceled" =>
         classBookings[i].booking_end_date >= classBookings[i].booking_start_date

\* For every caller and every booking it sees, the duplicate check for the
\* member and the schedule of the booking selects the booking exactly when
\* the capacity count counts it.
C33_SameSelection ==
  \A s \in Slots :
    \A i \in Visible(classBookings, s) :
      (i \in ExistingBookings(classBookings, classBookings[i].class_schedule_id,
                              classBookings[i].member_id, today, s))
        <=> (classBookings[i].status = "Active")

\* C33: in every reachable state a class booking has booking_end_date NULL
\* if and only if its status is Active, and a Canceled booking ends no
\* earlier than it starts; so the duplicate check and the capacity count
\* select the same bookings of a member on a schedule.
C33_ActiveIffOpenEnded == C33_EndDates /\ C33_SameSelection

\* A booking made on day 1 was canceled on day 2 and the seat taken again.
C33_Witness ==
  \E i, j \in DOMAIN classBookings :
    /\ classBookings[i].status = "Canceled" /\ classBookings[i].owner = 0
    /\ classBookings[i].booking_start_date = 1 /\ classBookings[i].booking_end_date = 2
    /\ classBookings[j].status = "Active" /\ classBookings[j].owner = 0
    /\ classBookings[j].booking_end_date = NULL
    /\ classBookings[j].class_schedule_id = classBookings[i].class_schedule_id

\* -------------------------------------------- a decided booking and capacity
\* The committed bookings, among rows, that have not been rejected.
StandingIn(rows) == {i \in DOMAIN rows : rows[i].owner = 0 /\ rows[i].status # "Rejected"}

Standing == StandingIn(trainerBookings)

\* The standing bookings of a trainer, and of a member, that overlap an
\* interval of a day.
TrainerBusy(trainerId, d, start, end) ==
  {i \in Standing : /\ trainerBookings[i].trainer_id = trainerId
                    /\ HalfOpenOverlap(trainerBookings[i], d, start, end)}

MemberBusy(rows, memberId, d, start, end) ==
  {i \in StandingIn(rows) : /\ rows[i].member_id = memberId
                            /\ HalfOpenOverlap(rows[i], d, start, end)}

\* A request that found a declaration is decided by the standing bookings
\* alone, a Confirmed one weighing as a Pending one: its capacity check by
\* those committed as it runs, its member check by the same.
C32_Request ==
  \A s \in ThreeCalls :
    /\ (LockStep(s, "request") /\ tx'[s].primary = "none" /\ tx'[s].slot # 0) =>
         LET c == tx[s]
             full == Cardinality(TrainerBusy(c.target, c.day, c.start, c.start + c.dur))
                       >= TrainerAvailabilities[tx'[s].slot].max_concurrent_bookings
         IN  /\ (tx'[s].result = "TRAINER_SLOT_FULL") <=> full
             /\ (tx'[s].pc = "insert") <=> ~full
             /\ ~full => ReadsCommitted(tx'[s].view.trainer_bookings, trainerBookings)
    /\ (InsertStep(s, "request") /\ tx'[s].primary = "none") =>
         LET c == tx[s]
             own == MemberBusy(c.view.trainer_bookings, c.member, c.day, c.start, c.start + c.dur) # {}
         IN  /\ (tx'[s].result = "MEMBER_TIME_CONFLICT") <=> own
             /\ (tx'[s].pc = "commit") <=> ~own

\* The bookings of the trainer in the table, committed or not, that are not
\* Rejected and overlap an interval of a day.
NotRejected(trainerId, d, start, end) ==
  {i \in DOMAIN trainerBookings :
     /\ trainerBookings[i].owner # RolledBack
     /\ trainerBookings[i].trainer_id = trainerId
     /\ trainerBookings[i].status # "Rejected"
     /\ HalfOpenOverlap(trainerBookings[i], d, start, end)}

\* No count a Browse takes includes a booking that is Rejected: it is at most
\* the number of bookings of the trainer that overlap the window and are not
\* Rejected.
C32_Browse ==
  \A s \in ThreeCalls :
    (tx[s].op = "browse" /\ tx[s].pc = "count" /\ tx'[s] # tx[s]) =>
      \A r \in tx'[s].slots \ tx[s].slots :
        r.current_bookings <=
          Cardinality(NotRejected(tx[s].target, tx[s].day,
                                  TrainerAvailabilities[r.availability_id].start_time,
                                  TrainerAvailabilities[r.availability_id].end_time))

\* A reject that commits takes a Pending booking out of the standing ones, a
\* confirm that commits leaves it among them; neither touches its trainer,
\* member or interval, nor any other booking.
C32_Decide ==
  \A s \in ThreeCalls :
    (tx[s].op \in {"confirm", "reject"} /\ tx[s].pc = "commit" /\ tx'[s].pc = "done"
       /\ tx'[s].primary = "none") =>
      LET b == tx[s].target
      IN  /\ trainerBookings[b].status = "Pending"
          /\ b \in Standing
          /\ tx[s].op = "reject" => Standing' = Standing \ {b}
          /\ tx[s].op = "confirm" => Standing' = Standing
          /\ DOMAIN trainerBookings' = DOMAIN trainerBookings
          /\ \A i \in DOMAIN trainerBookings \ {b} : trainerBookings'[i] = trainerBookings[i]
          /\ trainerBookings'[b].trainer_id = trainerBookings[b].trainer_id
          /\ trainerBookings'[b].member_id = trainerBookings[b].member_id
          /\ trainerBookings'[b].day = trainerBookings[b].day
          /\ trainerBookings'[b].start_time = trainerBookings[b].start_time
          /\ trainerBookings'[b].duration_minutes = trainerBookings[b].duration_minutes

C32_Step == C32_Request /\ C32_Browse /\ C32_Decide /\ ViewKept

\* C32: a Rejected booking is counted neither by the capacity check, nor by
\* the member-conflict check, nor by Browse, while a Confirmed booking is
\* counted as it was while Pending: a reject takes exactly its booking out of
\* the counted ones, a confirm takes none out, both checks of a request see
\* exactly the committed bookings that are not Rejected, and no count of a
\* Browse includes a Rejected booking.
C32_RejectFrees == [][C32_Step]_vars

\* ------------------------------------------ the guards of a request, in order
\* Requests alone, to two trainers: one with a window of max 2 inside a
\* window of max 1, one with two windows no request can straddle.
NextGuards ==
  \/ ClockAdvance({12})
  \/ \E s \in ThreeCalls : RequestBegin(s, {1, 2}, {1, 3}, {1}, Requests)
  \/ \E s \in ThreeCalls : RequestConnect(s)
  \/ \E s \in ThreeCalls : RequestLock(s)
  \/ \E s \in ThreeCalls : RequestInsert(s)
  \/ \E s \in ThreeCalls : RequestCommit(s)

SpecGuards == Init /\ [][NextGuards]_vars

\* The guards that fail for the request c on the rows read, a the
\* declaration taken (0: none).
C34_Fails(c, a, rows) ==
  (IF AvailSlots(c.target, c.day, c.start, c.dur) = {} THEN {"NO_AVAILABILITY_SLOT"} ELSE {})
    \cup (IF a # 0 /\ Cardinality(CompetingIn(rows, c))
                        >= TrainerAvailabilities[a].max_concurrent_bookings
          THEN {"TRAINER_SLOT_FULL"} ELSE {})
    \cup (IF OwnOverlappingIn(rows, c) # {} THEN {"MEMBER_TIME_CONFLICT"} ELSE {})

C34_Order == <<"NO_AVAILABILITY_SLOT", "TRAINER_SLOT_FULL", "MEMBER_TIME_CONFLICT">>

\* The first guard of the order that fails, "ok" when none does.
C34_First(fails) ==
  IF \E k \in 1..Len(C34_Order) : C34_Order[k] \in fails
  THEN C34_Order[CHOOSE k \in 1..Len(C34_Order) :
                   /\ C34_Order[k] \in fails
                   /\ \A j \in 1..(k - 1) : C34_Order[j] \notin fails]
  ELSE "ok"

\* The member's own committed Pending bookings with the trainer asked that
\* overlap the request.
C34_OwnPending(c) ==
  {i \in OwnOverlapping(c) : /\ trainerBookings[i].trainer_id = c.target
                             /\ trainerBookings[i].status = "Pending"}

\* The first two guards are tested on the bookings committed when the lock
\* is granted, the third on the same bookings, read then.
C34_Step ==
  \A s \in ThreeCalls :
    /\ LockStep(s, "request") =>
         LET c == tx[s]
             first == C34_First(C34_Fails(c, tx'[s].slot, trainerBookings))
         IN  /\ trainerBookings' = trainerBookings
             /\ first \in {"NO_AVAILABILITY_SLOT", "TRAINER_SLOT_FULL"} =>
                  (tx'[s].pc = "done" /\ tx'[s].result = first)
             /\ first \in {"MEMBER_TIME_CONFLICT", "ok"} =>
                  (tx'[s].pc = "insert" /\ ReadsCommitted(tx'[s].view.trainer_bookings, trainerBookings))
             /\ (/\ tx'[s].slot # 0
                 /\ C34_OwnPending(c) # {}
                 /\ TrainerAvailabilities[tx'[s].slot].max_concurrent_bookings = 1)
                  => tx'[s].result = "TRAINER_SLOT_FULL"
    /\ InsertStep(s, "request") =>
         LET c == tx[s]
             first == C34_First(C34_Fails(c, c.slot, c.view.trainer_bookings))
         IN  /\ first # "ok" => (tx'[s].pc = "done" /\ tx'[s].result = first
                                 /\ trainerBookings' = trainerBookings)
             /\ first = "ok" => tx'[s].pc = "commit"
             /\ tx'[s].result = "MEMBER_TIME_CONFLICT" =>
                  (/\ first = "MEMBER_TIME_CONFLICT"
                   /\ Cardinality(CompetingIn(c.view.trainer_bookings, c))
                        < TrainerAvailabilities[c.slot].max_concurrent_bookings)

\* C34: once its lock is granted a request reports the first failing guard of
\* NO_AVAILABILITY_SLOT, TRAINER_SLOT_FULL, MEMBER_TIME_CONFLICT, in that
\* order, and inserts nothing; a member who asks again for an interval
\* overlapping their own Pending booking with the same trainer is refused
\* TRAINER_SLOT_FULL when the declaration taken allows one booking, and
\* MEMBER_TIME_CONFLICT is reported only when the trainer's overlapping
\* bookings are fewer than the declaration taken allows.
C34_GuardOrder == [][C34_Step /\ ViewKept]_vars

\* A member holds 09:30-10:00 with trainer 1 and asked for it twice more: the
\* call that took the declaration of max 1 was refused TRAINER_SLOT_FULL, the
\* call that took the declaration of max 2 MEMBER_TIME_CONFLICT.
C34_Witness ==
  \E a, b, c \in ThreeCalls :
    /\ tx[a].op = "request" /\ tx[a].pc = "done" /\ tx[a].result = "ok"
    /\ tx[a].bookingId = 1 /\ trainerBookings[1].status = "Pending"
    /\ \A k \in {b, c} :
         /\ tx[k].op = "request" /\ tx[k].pc = "done"
         /\ tx[k].member = tx[a].member /\ tx[k].target = tx[a].target
         /\ tx[k].day = tx[a].day /\ tx[k].start = tx[a].start /\ tx[k].dur = tx[a].dur
    /\ tx[b].result = "TRAINER_SLOT_FULL"
    /\ TrainerAvailabilities[tx[b].slot].max_concurrent_bookings = 1
    /\ tx[c].result = "MEMBER_TIME_CONFLICT"
    /\ TrainerAvailabilities[tx[c].slot].max_concurrent_bookings = 2

====
